---- MODULE Spec2Model ----
(***************************************************************************)
(* A model of the Veravote election core: the Election orchestrator        *)
(* (Election.ts), the ballot (Vote.ts), ElGamal on the curve (ElGamal.ts)  *)
(* and the voter identity (Voter.ts).                                      *)
(*                                                                         *)
(* Representation.  A curve point is represented by its discrete logarithm *)
(* to the base G in Z_CurveOrder, so point addition is addition modulo the *)
(* order and scalar multiplication is multiplication modulo the order.     *)
(* The order and MAX_VOTES are scaled down together (MAX_VOTES stays far   *)
(* below the order, as 10000 is far below the Jubjub order) so that a sum  *)
(* above MAX_VOTES is reachable with a handful of ballots.  The hashes of  *)
(* the external libraries (Poseidon in Semaphore, the group's Merkle root) *)
(* are symbolic: the hash of a value is the tagged value itself.           *)
(***************************************************************************)
EXTENDS Integers, Sequences, FiniteSets, Bags, TLC

(***************************************************************************)
(* Bounds of the model.                                                    *)
(***************************************************************************)
\* ballots stored or in flight (suspended submitVote calls) in Spec
MaxVotes == 2
\* members of the anonymity group in Spec (every enrolment adds one)
MaxGroup == 2
\* the ephemeral keys encrypt draws are 1..MaxRand
MaxRand == 2

(***************************************************************************)
(* ElGamal.ts                                                              *)
(***************************************************************************)
\* curve.CURVE.n, the order of the group (scaled down)
CurveOrder == 11
\* const MAX_VOTES (scaled down with the order)
MAX_VOTES == 2
\* curve.Point.BASE
G == 1
\* curve.Point.ZERO, the identity point
ZERO == 0

PointAdd(p, q) == (p + q) % CurveOrder
PointSubtract(p, q) == (p - q) % CurveOrder
PointMultiply(p, k) == (p * k) % CurveOrder
\* Point.toHex / Point.fromHex: the canonical encoding of a point
ToHex(p) == [hex |-> p]
FromHex(s) == s.hex

\* sha256 of a password, as the big integer fromPassword reads; the digests of
\* the passwords of the model differ modulo the order, as SHA-256 digests of
\* distinct passwords do in practice
Sha256Int(password) ==
    CASE password = "trustee-pw" -> 25
      [] password = "wrong-pw"   -> 18
      [] OTHER                   -> 31

\* initDLogCache: { (i*G).toHex() -> i : i in 0..MAX_VOTES }, identity -> 0
DLOG_CACHE ==
    [s \in {ToHex(ZERO)} \cup {ToHex(PointMultiply(G, i)) : i \in 1..MAX_VOTES} |->
        IF s = ToHex(ZERO) THEN 0
        ELSE CHOOSE i \in 1..MAX_VOTES : ToHex(PointMultiply(G, i)) = s]

\* new ElGamalKeyPair(privateKey)
ElGamalKeyPair(privateKey) ==
    [privateKey |-> privateKey,
     publicKey  |-> [h |-> ToHex(PointMultiply(G, privateKey.x))]]

\* fromPassword with a fault: the password is not read
fromPasswordFixed(password) == ElGamalKeyPair([x |-> 3])

\* ElGamalKeyPair.fromPassword
fromPassword(password) ==
    ElGamalKeyPair([x |-> Sha256Int(password) % CurveOrder])

\* the value a throwing decrypt / tally is represented by
DecryptionFailed == -1

\* decrypt with a fault: a point missing from the table decrypts to 0
decryptSilentZero(keyPair, ciphertext) ==
    LET c1 == FromHex(ciphertext.c1)
        c2 == FromHex(ciphertext.c2)
        s  == PointMultiply(c1, keyPair.privateKey.x)
        m  == PointSubtract(c2, s)
    IN  IF ToHex(m) \in DOMAIN DLOG_CACHE THEN DLOG_CACHE[ToHex(m)] ELSE 0

\* ElGamalKeyPair.decrypt: m = c2 - x*c1, looked up in the table
decrypt(keyPair, ciphertext) ==
    LET c1 == FromHex(ciphertext.c1)
        c2 == FromHex(ciphertext.c2)
        s  == PointMultiply(c1, keyPair.privateKey.x)
        m  == PointSubtract(c2, s)
    IN  IF ToHex(m) \in DOMAIN DLOG_CACHE THEN DLOG_CACHE[ToHex(m)]
        ELSE DecryptionFailed

\* what a throwing encrypt is represented by
EncryptionFailed == [c1 |-> [hex |-> -1], c2 |-> [hex |-> -1]]

\* encrypt with a fault: the range of the message is not checked
encryptUnchecked(message, publicKey, r) ==
    LET c1 == PointMultiply(G, r)
        h  == FromHex(publicKey.h)
        s  == PointMultiply(h, r)
        m  == IF message = 0 THEN ZERO ELSE PointMultiply(G, message)
        c2 == PointAdd(s, m)
    IN  [c1 |-> ToHex(c1), c2 |-> ToHex(c2)]

\* ElGamalCiphertext.encrypt with the ephemeral key r it drew
encrypt(message, publicKey, r) ==
    IF message < 0 \/ message > MAX_VOTES THEN EncryptionFailed
    ELSE
    LET c1 == PointMultiply(G, r)
        h  == FromHex(publicKey.h)
        s  == PointMultiply(h, r)
        m  == IF message = 0 THEN ZERO ELSE PointMultiply(G, message)
        c2 == PointAdd(s, m)
    IN  [c1 |-> ToHex(c1), c2 |-> ToHex(c2)]

\* add with a fault: the second operand is dropped
addDropsOther(this, other) == this

\* ElGamalCiphertext.add
add(this, other) ==
    [c1 |-> ToHex(PointAdd(FromHex(this.c1), FromHex(other.c1))),
     c2 |-> ToHex(PointAdd(FromHex(this.c2), FromHex(other.c2)))]

\* what a throwing aggregate ('Cannot aggregate empty array') is represented by
AggregateFailed == [c1 |-> [hex |-> -2], c2 |-> [hex |-> -2]]

\* aggregate with a fault: only the first ciphertext is returned
aggregateFirstOnly(ciphertexts) ==
    IF Len(ciphertexts) = 0 THEN AggregateFailed ELSE ciphertexts[1]

\* aggregate with a fault: the last ciphertext replaces the sum
aggregateLastOnly(ciphertexts) ==
    IF Len(ciphertexts) = 0 THEN AggregateFailed ELSE ciphertexts[Len(ciphertexts)]

\* ElGamalCiphertext.aggregate: reduce((acc, ct) => acc.add(ct))
RECURSIVE aggregate(_)
aggregate(ciphertexts) ==
    IF Len(ciphertexts) = 0 THEN AggregateFailed
    ELSE IF Len(ciphertexts) = 1 THEN ciphertexts[1]
    ELSE add(aggregate(SubSeq(ciphertexts, 1, Len(ciphertexts) - 1)),
             ciphertexts[Len(ciphertexts)])

(***************************************************************************)
(* ElGamal.ts in use: a key pair, the messages encrypted under its public  *)
(* key, and the last call made                                             *)
(***************************************************************************)
VARIABLES
    elgamalKeyPair,  \* the ElGamalKeyPair in use
    plaintexts,      \* the messages encrypted so far, in order
    ciphertexts,     \* their ciphertexts, in the same order
    elgamalResult    \* the last call and what it returned

elgamalVars == <<elgamalKeyPair, plaintexts, ciphertexts, elgamalResult>>

\* ciphertexts encrypted so far in SpecElGamal
MaxCiphertexts == 3

\* the passwords key pairs are derived from
KeyPasswords == {"trustee-pw", "wrong-pw", "other-pw"}
\* the private keys key pairs are constructed from directly
PrivateKeys == {1, CurveOrder - 1}
\* the messages encrypt is called with, in and out of [0, MAX_VOTES]
Messages == (-1)..(MAX_VOTES + 1)
\* the ephemeral keys encrypt draws
EphemeralKeys == {1, CurveOrder - 1}
\* a ciphertext that is no ciphertext (a call that takes or returns none)
NoCiphertext == [c1 |-> [hex |-> -3], c2 |-> [hex |-> -3]]
\* an integer that is no result (a call that returns no integer)
NoValue == -3

\* a call, the key it ran under, the plaintext behind its n ciphertexts, the
\* ciphertext it returned or decrypted, and the integer it returned
ElGamalReturned(op, password, x, n, message, ct, value) ==
    [op |-> op, password |-> password, x |-> x, n |-> n, message |-> message,
     ct |-> ct, value |-> value]

ElGamalInit ==
    /\ elgamalKeyPair = fromPassword("trustee-pw")
    /\ plaintexts = <<>>
    /\ ciphertexts = <<>>
    /\ elgamalResult = ElGamalReturned("fromPassword", "trustee-pw",
                          fromPassword("trustee-pw").privateKey.x, 0,
                          NoValue, NoCiphertext, NoValue)

\* keyPair = ElGamalKeyPair.fromPassword(password)
FromPassword(password) ==
    /\ elgamalKeyPair' = fromPassword(password)
    /\ plaintexts' = <<>>
    /\ ciphertexts' = <<>>
    /\ elgamalResult' = ElGamalReturned("fromPassword", password,
                           fromPassword(password).privateKey.x, 0,
                           NoValue, NoCiphertext, NoValue)

\* keyPair = new ElGamalKeyPair({ x })
NewKeyPair(x) ==
    /\ elgamalKeyPair' = ElGamalKeyPair([x |-> x])
    /\ plaintexts' = <<>>
    /\ ciphertexts' = <<>>
    /\ elgamalResult' = ElGamalReturned("new ElGamalKeyPair", "", x, 0,
                           NoValue, NoCiphertext, NoValue)

\* ct = ElGamalCiphertext.encrypt(message, keyPair.publicKey), drawing r
Encrypt(message, r) ==
    LET ct == encrypt(message, elgamalKeyPair.publicKey, r)
    IN  /\ elgamalResult' = ElGamalReturned("encrypt", "",
                               elgamalKeyPair.privateKey.x, 0, message, ct,
                               NoValue)
        /\ IF ct = EncryptionFailed
           THEN UNCHANGED <<plaintexts, ciphertexts>>
           ELSE /\ plaintexts' = Append(plaintexts, message)
                /\ ciphertexts' = Append(ciphertexts, ct)
        /\ UNCHANGED elgamalKeyPair

\* kp.decrypt(ciphertexts[i]), kp the key pair in use or another one
Decrypt(i, kp) ==
    /\ i \in 1..Len(ciphertexts)
    /\ elgamalResult' = ElGamalReturned("decrypt", "", kp.privateKey.x, 1,
                           plaintexts[i], ciphertexts[i],
                           decrypt(kp, ciphertexts[i]))
    /\ UNCHANGED <<elgamalKeyPair, plaintexts, ciphertexts>>

\* keyPair.decrypt(ciphertexts[i].add(ciphertexts[j]))
Add(i, j) ==
    /\ i \in 1..Len(ciphertexts)
    /\ j \in 1..Len(ciphertexts)
    /\ LET ct == add(ciphertexts[i], ciphertexts[j])
       IN  elgamalResult' = ElGamalReturned("add", "",
                               elgamalKeyPair.privateKey.x, 2,
                               plaintexts[i] + plaintexts[j], ct,
                               decrypt(elgamalKeyPair, ct))
    /\ UNCHANGED <<elgamalKeyPair, plaintexts, ciphertexts>>

RECURSIVE Sum(_)
Sum(ms) == IF Len(ms) = 0 THEN 0 ELSE ms[1] + Sum(Tail(ms))

\* keyPair.decrypt(ElGamalCiphertext.aggregate(ciphertexts.slice(0, n)))
Aggregate(n) ==
    /\ n \in 0..Len(ciphertexts)
    /\ LET ct == aggregate(SubSeq(ciphertexts, 1, n))
       IN  elgamalResult' = ElGamalReturned("aggregate", "",
                               elgamalKeyPair.privateKey.x, n,
                               Sum(SubSeq(plaintexts, 1, n)), ct,
                               IF ct = AggregateFailed THEN NoValue
                               ELSE decrypt(elgamalKeyPair, ct))
    /\ UNCHANGED <<elgamalKeyPair, plaintexts, ciphertexts>>

(***************************************************************************)
(* JavaScript strings, as far as the sources use them.  Places are counted *)
(* from 1, and 0 stands for indexOf's -1.                                  *)
(***************************************************************************)
\* s.indexOf(sub, from - 1) + 1, for a non-empty sub
RECURSIVE IndexOfFrom(_, _, _)
IndexOfFrom(s, sub, from) ==
    IF from + Len(sub) - 1 > Len(s) THEN 0
    ELSE IF SubSeq(s, from, from + Len(sub) - 1) = sub THEN from
    ELSE IndexOfFrom(s, sub, from + 1)
\* s.indexOf(sub) + 1
IndexOf(s, sub) == IndexOfFrom(s, sub, 1)
\* s.includes(sub)
Includes(s, sub) == IndexOf(s, sub) # 0
\* s.split(sep), for a separator of one character
RECURSIVE Split(_, _)
Split(s, sep) ==
    LET at == IndexOf(s, sep)
    IN  IF at = 0 THEN <<s>>
        ELSE <<SubSeq(s, 1, at - 1)>> \o Split(SubSeq(s, at + 1, Len(s)), sep)
\* the white space trim() removes
IsWhiteSpace(ch) == ch \in {" ", "\n", "\r", "\t"}
\* s.trim()
RECURSIVE Trim(_)
Trim(s) ==
    IF Len(s) = 0 THEN s
    ELSE IF IsWhiteSpace(SubSeq(s, 1, 1)) THEN Trim(SubSeq(s, 2, Len(s)))
    ELSE IF IsWhiteSpace(SubSeq(s, Len(s), Len(s)))
         THEN Trim(SubSeq(s, 1, Len(s) - 1))
    ELSE s
\* the lower case of each upper case letter
LowerCaseOf ==
    LET upper == <<"A", "B", "C", "D", "E", "F", "G", "H", "I", "J", "K", "L", "M",
                   "N", "O", "P", "Q", "R", "S", "T", "U", "V", "W", "X", "Y", "Z">>
        lower == <<"a", "b", "c", "d", "e", "f", "g", "h", "i", "j", "k", "l", "m",
                   "n", "o", "p", "q", "r", "s", "t", "u", "v", "w", "x", "y", "z">>
    IN  [ch \in {upper[i] : i \in 1..26} |->
            lower[CHOOSE i \in 1..26 : upper[i] = ch]]
\* s.toLowerCase()
RECURSIVE ToLowerCase(_)
ToLowerCase(s) ==
    IF Len(s) = 0 THEN s
    ELSE LET ch == SubSeq(s, 1, 1)
         IN  (IF ch \in DOMAIN LowerCaseOf THEN LowerCaseOf[ch] ELSE ch)
                \o ToLowerCase(SubSeq(s, 2, Len(s)))

(***************************************************************************)
(* Voter.ts and the Semaphore identity                                     *)
(***************************************************************************)
\* the secret the Voter constructor derives the identity from
IdentitySecret(email, electionId) == email \o ":" \o electionId
\* Voter.id
VoterId(email, electionId) == electionId \o "-" \o email
\* new Identity(secret).commitment (symbolic hash of the secret)
Commitment(secret) == [commitment |-> secret]
\* new Voter(email, electionId)
Voter(email, electionId) ==
    [id         |-> VoterId(email, electionId),
     email      |-> email,
     identity   |-> IdentitySecret(email, electionId),
     commitment |-> Commitment(IdentitySecret(email, electionId))]

(***************************************************************************)
(* Voter.ts: the one-time access token                                     *)
(***************************************************************************)
\* bytesToHex(sha256(new TextEncoder().encode(s))) (symbolic)
Sha256Hex(s) == [sha256 |-> s]
\* bytesToHex(randomBytes(32)): the k-th draw; draws do not repeat
RandomBytesHex(k) == <<"r1", "r2", "r3", "r4", "r5", "r6">>[k]

\* generateToken: the VoterToken it stores and returns
generateToken(voter, randomPart, now, expiryHours) ==
    [token     |-> voter.id \o ":" \o randomPart,
     hash      |-> Sha256Hex(voter.id \o ":" \o randomPart),
     expiresAt |-> now + expiryHours,
     used      |-> FALSE]

\* verifyToken with a fault: an expired token does not verify
verifyTokenUnlessExpired(tokenField, token, now) ==
    IF tokenField = <<>> THEN FALSE
    ELSE /\ Sha256Hex(token) = tokenField[1].hash
         /\ ~tokenField[1].used
         /\ ~(now > tokenField[1].expiresAt)

\* verifyToken(token); tokenField is this._token, <<>> when undefined; now is
\* the time of the call, which verifyToken does not read
verifyToken(tokenField, token, now) ==
    IF tokenField = <<>> THEN FALSE
    ELSE Sha256Hex(token) = tokenField[1].hash /\ ~tokenField[1].used

\* markTokenUsed with a fault: the flag is left as it is
markTokenUsedNot(tokenField) == tokenField

\* markTokenUsed: this._token after the call
markTokenUsed(tokenField) ==
    IF tokenField # <<>> THEN <<[tokenField[1] EXCEPT !.used = TRUE]>>
    ELSE tokenField

\* isTokenExpired
isTokenExpired(tokenField, now) ==
    IF tokenField = <<>> THEN TRUE ELSE now > tokenField[1].expiresAt

\* what parseToken returns for null
Null == <<>>
\* Voter.parseToken: <<parts[0]>>, or Null
parseToken(token) ==
    IF Len(Split(token, ":")) < 2 THEN Null ELSE <<Split(token, ":")[1]>>

VARIABLES
    voterObject,    \* the Voter the calls are made on
    tokenField,     \* its _token: <<>> when undefined, else <<VoterToken>>
    tokenClock,     \* the time new Date() reads, in hours
    randomDraws,    \* how many times randomBytes has been called
    issuedTokens,   \* history: the token strings issued to voterObject
    markedTokens,   \* history: those that were current at a markTokenUsed call
    voterResult     \* the last call and what it returned

voterVars == <<voterObject, tokenField, tokenClock, randomDraws, issuedTokens,
               markedTokens, voterResult>>

\* tokens issued in SpecVoter
MaxTokens == 2
\* hours that pass in SpecVoter
MaxHours == 2

\* the emails and election ids voters are constructed from
VoterEmails == {"a@x", "a:b@x", "a@x:e"}
VoterElectionIds == {"e1", "e:2", "2"}
\* the expiryHours generateToken is called with
ExpiryHours == {0, 1}
\* strings that are not tokens of the voter
OtherStrings == {"invalid-token", "", "e1:r9"}

VoterReturned(op, arg, out, str) ==
    [op |-> op, arg |-> arg, out |-> out, str |-> str]

VoterInit ==
    /\ voterObject = Voter("a@x", "e1")
    /\ tokenField = <<>>
    /\ tokenClock = 0
    /\ randomDraws = 0
    /\ issuedTokens = {}
    /\ markedTokens = {}
    /\ voterResult = VoterReturned("new Voter", "a@x", TRUE, <<>>)

\* voter = new Voter(email, electionId)
NewVoter(email, electionId) ==
    /\ voterObject' = Voter(email, electionId)
    /\ tokenField' = <<>>
    /\ issuedTokens' = {}
    /\ markedTokens' = {}
    /\ voterResult' = VoterReturned("new Voter", email, TRUE, <<>>)
    /\ UNCHANGED <<tokenClock, randomDraws>>

\* voter.generateToken(expiryHours)
GenerateToken(expiryHours) ==
    LET issued == generateToken(voterObject, RandomBytesHex(randomDraws + 1),
                                tokenClock, expiryHours)
    IN  /\ randomDraws' = randomDraws + 1
        /\ tokenField' = <<issued>>
        /\ issuedTokens' = issuedTokens \cup {issued.token}
        /\ voterResult' = VoterReturned("generateToken", "", TRUE, <<issued.token>>)
        /\ UNCHANGED <<voterObject, tokenClock, markedTokens>>

\* voter.verifyToken(token)
VerifyToken(token) ==
    /\ voterResult' = VoterReturned("verifyToken", token,
                         verifyToken(tokenField, token, tokenClock), <<>>)
    /\ UNCHANGED <<voterObject, tokenField, tokenClock, randomDraws,
                   issuedTokens, markedTokens>>

\* voter.markTokenUsed()
MarkTokenUsed ==
    /\ tokenField' = markTokenUsed(tokenField)
    /\ markedTokens' = IF tokenField = <<>> THEN markedTokens
                       ELSE markedTokens \cup {tokenField[1].token}
    /\ voterResult' = VoterReturned("markTokenUsed", "", TRUE, <<>>)
    /\ UNCHANGED <<voterObject, tokenClock, randomDraws, issuedTokens>>

\* voter.isTokenExpired()
IsTokenExpired ==
    /\ voterResult' = VoterReturned("isTokenExpired", "",
                         isTokenExpired(tokenField, tokenClock), <<>>)
    /\ UNCHANGED <<voterObject, tokenField, tokenClock, randomDraws,
                   issuedTokens, markedTokens>>

\* Voter.parseToken(token)
ParseToken(token) ==
    /\ voterResult' = VoterReturned("parseToken", token,
                         parseToken(token) # Null, parseToken(token))
    /\ UNCHANGED <<voterObject, tokenField, tokenClock, randomDraws,
                   issuedTokens, markedTokens>>

\* an hour passes
HourPasses ==
    /\ tokenClock' = tokenClock + 1
    /\ UNCHANGED <<voterObject, tokenField, randomDraws, issuedTokens,
                   markedTokens, voterResult>>

(***************************************************************************)
(* The Semaphore group and proof, by their contract                        *)
(***************************************************************************)
\* Group.root: a hash of the member list (symbolic)
GroupRoot(members) == [root |-> members]
\* the nullifier of a proof: a hash of (scope, identity secret) (symbolic)
Nullifier(identity, scope) == [secret |-> identity, scope |-> scope]
\* generateProof(identity, group, message, scope), for an identity in the group
generateProof(identity, members, scope) ==
    [merkleTreeRoot |-> GroupRoot(members),
     nullifier      |-> Nullifier(identity, scope),
     scope          |-> scope,
     points         |-> "valid"]
\* verifyProof(proof): the proof verifies against the root it carries
verifyProof(proof) == proof.points = "valid"

(***************************************************************************)
(* Vote.ts                                                                 *)
(***************************************************************************)
\* Vote.cast with the ephemeral keys rs[k] its encryptions drew, for an
\* identity that is a member of electionGroup (generateProof throws for any
\* other).  The proof's message (Vote.hashVoteVector), the receipt and the
\* timestamp are read by no operation of the election; castAt adds them.
\* `ghost` records what the ballot hides: it is read by no operation.
\* cast with a fault: the scope of the proof is the selected candidate
castScopeCandidate(voterIdentity, electionGroup, selectedCandidateId, candidateOrder, publicKey, electionId, rs) ==
    LET encryptedVotes ==
            [k \in 1..Len(candidateOrder) |->
                encrypt(IF candidateOrder[k] = selectedCandidateId THEN 1 ELSE 0,
                        publicKey, rs[k])]
        proof == generateProof(voterIdentity, electionGroup, selectedCandidateId)
    IN  [voteVector |-> [encryptedVotes |-> encryptedVotes,
                         candidateOrder |-> candidateOrder],
         proof      |-> proof,
         nullifier  |-> proof.nullifier,
         ghost      |-> [selected |-> selectedCandidateId, h |-> publicKey.h]]
\* cast with a fault: the first position encrypts 1, whatever is selected
castFirstPosition(voterIdentity, electionGroup, selectedCandidateId, candidateOrder, publicKey, electionId, rs) ==
    LET encryptedVotes ==
            [k \in 1..Len(candidateOrder) |->
                encrypt(IF k = 1 THEN 1 ELSE 0, publicKey, rs[k])]
        proof == generateProof(voterIdentity, electionGroup, electionId)
    IN  [voteVector |-> [encryptedVotes |-> encryptedVotes,
                         candidateOrder |-> candidateOrder],
         proof      |-> proof,
         nullifier  |-> proof.nullifier,
         ghost      |-> [selected |-> selectedCandidateId, h |-> publicKey.h]]
cast(voterIdentity, electionGroup, selectedCandidateId, candidateOrder, publicKey, electionId, rs) ==
    LET encryptedVotes ==
            [k \in 1..Len(candidateOrder) |->
                encrypt(IF candidateOrder[k] = selectedCandidateId THEN 1 ELSE 0,
                        publicKey, rs[k])]
        proof == generateProof(voterIdentity, electionGroup, electionId)
    IN  [voteVector |-> [encryptedVotes |-> encryptedVotes,
                         candidateOrder |-> candidateOrder],
         proof      |-> proof,
         nullifier  |-> proof.nullifier,
         ghost      |-> [selected |-> selectedCandidateId, h |-> publicKey.h]]

\* Vote.verify
verify(vote) == verifyProof(vote.proof)
\* Vote.getCandidateOrder
getCandidateOrder(vote) == vote.voteVector.candidateOrder
\* Vote.getEncryptedVoteAt (position from 1)
getEncryptedVoteAt(vote, position) == vote.voteVector.encryptedVotes[position]
\* a ballot whose proof points were altered after cast
Tampered(vote) == [vote EXCEPT !.proof.points = "tampered"]
\* a ballot whose proof lost the form the verifier takes after cast
Malformed(vote) == [vote EXCEPT !.proof.points = "malformed"]
\* verifyProof(proof) throws instead of returning, as it does for such a proof
verifyThrows(vote) == vote.proof.points = "malformed"
\* what a submitVote whose await threw is recorded to return: its promise rejects
Rejected == "rejected promise"

\* new TextEncoder().encode: the byte of each character JSON.stringify writes here
CharCodeOf ==
    LET run(chars, first) ==
            [ch \in {SubSeq(chars, k, k) : k \in 1..Len(chars)} |->
                first - 1 + CHOOSE k \in 1..Len(chars) : SubSeq(chars, k, k) = ch]
    IN  run("0123456789", 48) @@ run("ABCDEFGHIJKLMNOPQRSTUVWXYZ", 65)
        @@ run("abcdefghijklmnopqrstuvwxyz", 97) @@ run(" !", 32) @@ run("\"", 34)
        @@ run(",-.", 44) @@ run(":", 58) @@ run("@", 64) @@ run("[", 91)
        @@ run("]", 93) @@ run("_", 95) @@ run("{", 123) @@ run("}", 125)
\* the text of a hex encoded point (one byte of hex here, 32 in the build)
HexText(h) ==
    LET digits == <<"0", "1", "2", "3", "4", "5", "6", "7", "8", "9",
                    "a", "b", "c", "d", "e", "f">>
    IN  digits[(h.hex \div 16) + 1] \o digits[(h.hex % 16) + 1]
\* JSON.stringify of a string without characters to escape
JsonString(s) == "\"" \o s \o "\""
\* JSON.stringify of an array, given the JSON of its items
RECURSIVE JsonArray(_)
JsonArray(items) ==
    IF items = <<>> THEN "[]"
    ELSE IF Len(items) = 1 THEN "[" \o items[1] \o "]"
    ELSE "[" \o items[1] \o ","
             \o SubSeq(JsonArray(Tail(items)), 2, Len(JsonArray(Tail(items))))
\* JSON.stringify({ encryptedVotes: [{c1, c2}...], candidateOrder })
JsonOfVoteVector(voteVector) ==
    "{\"encryptedVotes\":"
    \o JsonArray([k \in 1..Len(voteVector.encryptedVotes) |->
          "{\"c1\":" \o JsonString(HexText(voteVector.encryptedVotes[k].c1))
          \o ",\"c2\":" \o JsonString(HexText(voteVector.encryptedVotes[k].c2))
          \o "}"])
    \o ",\"candidateOrder\":"
    \o JsonArray([k \in 1..Len(voteVector.candidateOrder) |->
          JsonString(voteVector.candidateOrder[k])])
    \o "}"
\* a scalar below 2^253 is written by its 32 digits in base 256, the first below
\* 32 (2^253 = 32 * 256^31); this is (hash * 256 + byte) % 2^253
HashStep(hash, byte) ==
    [k \in 1..32 |-> IF k = 32 THEN byte
                     ELSE IF k = 1 THEN hash[2] % 32
                     ELSE hash[k + 1]]
\* the loop of hashVoteVector from byte i on
RECURSIVE HashFrom(_, _, _)
HashFrom(hash, data, i) ==
    IF i > Len(data) THEN hash
    ELSE HashFrom(HashStep(hash, CharCodeOf[SubSeq(data, i, i)]), data, i + 1)
\* Vote.hashVoteVector
hashVoteVector(voteVector) ==
    HashFrom([k \in 1..32 |-> 0], JsonOfVoteVector(voteVector), 1)
\* Vote.generateReceipt, for a vote with this nullifier and timestamp; the
\* receipt id is a hash of the four parts (symbolic)
generateReceipt(voteVector, nullifier, timestamp, electionId) ==
    LET voteVectorHash == hashVoteVector(voteVector)
    IN  [receiptId      |-> [sha256 |-> <<electionId, voteVectorHash, nullifier,
                                          timestamp>>],
         electionId     |-> electionId,
         voteVectorHash |-> voteVectorHash,
         timestamp      |-> timestamp,
         nullifier      |-> nullifier]
\* the Vote that Vote.cast returns at time now, with the message of its proof
\* and its receipt
castAt(voterIdentity, electionGroup, selectedCandidateId, candidateOrder, publicKey, electionId, rs, now) ==
    LET vote == cast(voterIdentity, electionGroup, selectedCandidateId,
                     candidateOrder, publicKey, electionId, rs)
    IN  [voteVector |-> vote.voteVector,
         proof      |-> vote.proof,
         message    |-> hashVoteVector(vote.voteVector),
         nullifier  |-> vote.nullifier,
         receipt    |-> generateReceipt(vote.voteVector, vote.nullifier, now,
                                        electionId),
         timestamp  |-> now]

(***************************************************************************)
(* VoterMerkleTree.ts, over the fixed-merkle-tree library by its contract  *)
(* (the hash of two nodes is symbolic: the pair itself).                   *)
(***************************************************************************)
\* line.split(',')[0].trim().toLowerCase()
FirstFieldNormalized(line) == ToLowerCase(Trim(Split(line, ",")[1]))
\* lines[0].toLowerCase().includes('email')
IncludesEmail(line) == Includes(ToLowerCase(line), "email")
\* email.length > 0 && email.includes('@')
IsValidEmail(email) == Len(email) > 0 /\ Includes(email, "@")

\* the removal of duplicates with a fault: the last occurrence is kept
RECURSIVE DedupeKeepLast(_)
DedupeKeepLast(s) ==
    IF s = <<>> THEN <<>>
    ELSE LET rest == DedupeKeepLast(Tail(s))
         IN  IF \E i \in 1..Len(rest) : rest[i] = Head(s) THEN rest
             ELSE <<Head(s)>> \o rest

\* Array.from(new Set(rawEmails)): duplicates removed, first occurrence kept
RECURSIVE Dedupe(_)
Dedupe(s) ==
    IF s = <<>> THEN <<>>
    ELSE LET front == Dedupe(SubSeq(s, 1, Len(s) - 1))
             last  == s[Len(s)]
         IN  IF \E i \in 1..Len(front) : front[i] = last THEN front
             ELSE Append(front, last)

\* the emails the VoterMerkleTree constructor keeps (<<>>: it throws)
CsvEmails(csvContent) ==
    LET lines      == Split(Trim(csvContent), "\n")
        startIndex == IF IncludesEmail(lines[1]) THEN 2 ELSE 1
        fields     == [i \in 1..(Len(lines) - startIndex + 1) |->
                          FirstFieldNormalized(lines[i + startIndex - 1])]
        rawEmails  == SelectSeq(fields, IsValidEmail)
    IN  Dedupe(rawEmails)

\* VoterMerkleTree.calculateDepth
RECURSIVE CeilLog2(_)
CeilLog2(n) == IF n <= 1 THEN 0 ELSE 1 + CeilLog2((n + 1) \div 2)
calculateDepth(numberOfVoters) ==
    IF numberOfVoters = 0 THEN 1 ELSE CeilLog2(numberOfVoters)

\* VoterMerkleTree.hashEmail (symbolic sha256 of the normalised email)
hashEmail(email) == Sha256Hex(ToLowerCase(Trim(email)))

\* fixed-merkle-tree: the hash of two nodes, the zero leaf, the zero of a level
HashLeftRight(left, right) == [left |-> left, right |-> right]
ZeroElement == [zero |-> 0]
RECURSIVE Zeros(_)
Zeros(level) ==
    IF level = 0 THEN ZeroElement
    ELSE HashLeftRight(Zeros(level - 1), Zeros(level - 1))
\* fixed-merkle-tree: the nodes of a level, level 0 being the elements
RECURSIVE Layer(_, _)
Layer(elements, level) ==
    IF level = 0 THEN elements
    ELSE LET below == Layer(elements, level - 1)
         IN  [i \in 1..((Len(below) + 1) \div 2) |->
                HashLeftRight(below[2 * i - 1],
                              IF 2 * i <= Len(below) THEN below[2 * i]
                              ELSE Zeros(level - 1))]
\* new MerkleTree(levels, elements), for at most 2^levels elements
MerkleTree(levels, elements) ==
    [levels   |-> levels,
     elements |-> elements,
     root     |-> IF Len(Layer(elements, levels)) > 0
                  THEN Layer(elements, levels)[1] ELSE Zeros(levels)]
\* MerkleTree.path(index), index counted from 0
path(tree, index) ==
    [pathElements |->
        [l \in 1..tree.levels |->
            LET layer   == Layer(tree.elements, l - 1)
                at      == index \div (2 ^ (l - 1))
                sibling == IF at % 2 = 0 THEN at + 1 ELSE at - 1
            IN  IF sibling + 1 <= Len(layer) THEN layer[sibling + 1]
                ELSE Zeros(l - 1)],
     pathIndices  |-> [l \in 1..tree.levels |-> (index \div (2 ^ (l - 1))) % 2]]

\* the VoterEligibilityData of an email at an index
VoterEligibilityData(email, index) ==
    [email |-> email, leafHash |-> hashEmail(email), index |-> index]
\* the voterMap the forEach of set(voter.email, index) leaves: the last index of
\* each email of the voter data
VoterMapOf(voterData) ==
    [email \in {voterData[i].email : i \in 1..Len(voterData)} |->
        (CHOOSE i \in 1..Len(voterData) :
            /\ voterData[i].email = email
            /\ \A j \in (i + 1)..Len(voterData) : voterData[j].email # email) - 1]

\* rebuildTree: the object it leaves, from the voter data it finds
rebuildTree(voterData) ==
    [tree      |-> MerkleTree(calculateDepth(Len(voterData)),
                              [i \in 1..Len(voterData) |-> voterData[i].leafHash]),
     voterMap  |-> VoterMapOf(voterData),
     voterData |-> [i \in 1..Len(voterData) |->
                      [voterData[i] EXCEPT !.index = i - 1]]]

\* new VoterMerkleTree(csvContent), for a CSV with a valid email
VoterMerkleTree(csvContent) ==
    LET emails   == CsvEmails(csvContent)
        elements == [i \in 1..Len(emails) |-> hashEmail(emails[i])]
    IN  [tree      |-> MerkleTree(calculateDepth(Len(emails)), elements),
         voterMap  |-> [email \in {emails[i] : i \in 1..Len(emails)} |->
                          (CHOOSE i \in 1..Len(emails) : emails[i] = email) - 1],
         voterData |-> [i \in 1..Len(emails) |->
                          [email |-> emails[i], leafHash |-> elements[i],
                           index |-> i - 1]]]

\* a call on the tree: what it throws or "ok", and the object it leaves
TreeOutcome(out, this) == [out |-> out, this |-> this]

\* addVoter(email)
addVoter(this, email) ==
    LET normalized == ToLowerCase(Trim(email))
    IN  IF normalized \in DOMAIN this.voterMap
        THEN TreeOutcome("Voter " \o email \o " already exists in tree", this)
        ELSE TreeOutcome("ok",
                rebuildTree(Append(this.voterData,
                    VoterEligibilityData(normalized, Len(this.voterData)))))

\* addVoters(emails): each email is checked against the voterMap and pushed; a
\* throw leaves the emails pushed before it in the voter data, the tree not
\* rebuilt
RECURSIVE addVoters(_, _)
addVoters(this, emails) ==
    IF emails = <<>> THEN TreeOutcome("ok", rebuildTree(this.voterData))
    ELSE LET normalized == ToLowerCase(Trim(Head(emails)))
         IN  IF normalized \in DOMAIN this.voterMap
             THEN TreeOutcome("Voter " \o Head(emails) \o " already exists in tree",
                              this)
             ELSE addVoters([this EXCEPT !.voterData =
                                Append(@, VoterEligibilityData(normalized, Len(@)))],
                            Tail(emails))

\* updateVoter(oldEmail, newEmail)
updateVoter(this, oldEmail, newEmail) ==
    LET normalizedOld == ToLowerCase(Trim(oldEmail))
        normalizedNew == ToLowerCase(Trim(newEmail))
    IN  IF normalizedOld \notin DOMAIN this.voterMap
        THEN TreeOutcome("Voter " \o oldEmail \o " not found in tree", this)
        ELSE LET index == this.voterMap[normalizedOld]
                 updated == VoterEligibilityData(normalizedNew, index)
             IN  TreeOutcome("ok",
                    rebuildTree(IF index < Len(this.voterData)
                                THEN [this.voterData EXCEPT ![index + 1] = updated]
                                ELSE Append(this.voterData, updated)))

\* generateProof with a fault: the email is looked up as given
generateProofAsGiven(this, email) ==
    IF email \notin DOMAIN this.voterMap THEN Null
    ELSE LET index == this.voterMap[email]
         IN  <<[pathElements |-> path(this.tree, index).pathElements,
                pathIndices  |-> path(this.tree, index).pathIndices,
                root         |-> this.tree.root,
                leaf         |-> this.tree.elements[index + 1]]>>

\* VoterMerkleTree.generateProof(email): <<proof>>, or Null
treeGenerateProof(this, email) ==
    LET normalized == ToLowerCase(Trim(email))
    IN  IF normalized \notin DOMAIN this.voterMap THEN Null
        ELSE LET index == this.voterMap[normalized]
             IN  <<[pathElements |-> path(this.tree, index).pathElements,
                    pathIndices  |-> path(this.tree, index).pathIndices,
                    root         |-> this.tree.root,
                    leaf         |-> this.tree.elements[index + 1]]>>

\* isEligible(email)
isEligible(this, email) == ToLowerCase(Trim(email)) \in DOMAIN this.voterMap
\* get size
size(this) == Cardinality(DOMAIN this.voterMap)
\* get depth
depth(this) == this.tree.levels
\* getRoot
getRoot(this) == this.tree.root

\* the entries of the voterMap in the order of the Map: a key stands where the
\* rebuild first set it, with the last index it was set to
RECURSIVE VoterMapEntries(_, _)
VoterMapEntries(voterMap, voterData) ==
    IF voterData = <<>> THEN <<>>
    ELSE LET email == voterData[Len(voterData)].email
             front == SubSeq(voterData, 1, Len(voterData) - 1)
             rest  == VoterMapEntries(voterMap, front)
         IN  IF /\ email \in DOMAIN voterMap
                /\ \A k \in 1..Len(front) : front[k].email # email
             THEN Append(rest, <<email, voterMap[email]>>)
             ELSE rest

\* export with a fault: the depth is computed from the size
exportDepthOfSize(this) ==
    [depth    |-> calculateDepth(size(this)),
     root     |-> getRoot(this),
     elements |-> this.tree.elements,
     voterMap |-> this.voterMap,
     entries  |-> VoterMapEntries(this.voterMap, this.voterData)]
\* export(): VoterMerkleTreeData; the Map is its lookup and its entries in order
treeExport(this) ==
    [depth    |-> depth(this),
     root     |-> getRoot(this),
     elements |-> this.tree.elements,
     voterMap |-> this.voterMap,
     entries  |-> VoterMapEntries(this.voterMap, this.voterData)]
\* VoterMerkleTree.import(data)
treeImport(data) ==
    [tree      |-> MerkleTree(data.depth, data.elements),
     voterMap  |-> data.voterMap,
     voterData |-> [k \in 1..Len(data.entries) |->
                      [email    |-> data.entries[k][1],
                       leafHash |-> data.elements[data.entries[k][2] + 1],
                       index    |-> data.entries[k][2]]]]

VARIABLES
    voterTree,   \* the VoterMerkleTree the calls are made on
    treeResult   \* the last call and what it returned

treeVars == <<voterTree, treeResult>>

\* entries of the voter data in SpecTree
MaxLeaves == 3

\* the CSV contents trees are built from
TreeCsvs ==
    { "email,name\nA@x \na@x,Ann\nb@x",
      "email,name\nn/a",
      "b@x\n\n,Bob\nc@x,Cy\nB@X \nnobody",
      "  Email Address\nc@x\na@x\nc@x\n",
      "email@x\nb@x",
      " \n" }
\* the emails the calls on a tree are made with
TreeEmails == {"a@x", " B@x", "c@x", "d@x"}
\* the batches addVoters is called with
TreeBatches == { <<"b@x", "c@x">>, <<"d@x", "D@x">>, <<"c@x", "a@x">>, <<>> }

TreeReturned(op, arg, out, proof, flag) ==
    [op |-> op, arg |-> arg, out |-> out, proof |-> proof, flag |-> flag]

TreeInit ==
    /\ voterTree = VoterMerkleTree("a@x")
    /\ treeResult = TreeReturned("new VoterMerkleTree", "a@x", "ok", Null, TRUE)

\* tree = new VoterMerkleTree(csvContent); a throw leaves the tree there was
BuildTree(csvContent) ==
    IF CsvEmails(csvContent) = <<>>
    THEN /\ treeResult' = TreeReturned("new VoterMerkleTree", csvContent,
                             "No valid emails found in CSV", Null, FALSE)
         /\ UNCHANGED voterTree
    ELSE /\ voterTree' = VoterMerkleTree(csvContent)
         /\ treeResult' = TreeReturned("new VoterMerkleTree", csvContent, "ok",
                             Null, TRUE)

\* tree.addVoter(email)
AddVoter(email) ==
    LET outcome == addVoter(voterTree, email)
    IN  /\ voterTree' = outcome.this
        /\ treeResult' = TreeReturned("addVoter", email, outcome.out, Null,
                             outcome.out = "ok")

\* tree.addVoters(emails)
AddVotersToTree(emails) ==
    LET outcome == addVoters(voterTree, emails)
    IN  /\ voterTree' = outcome.this
        /\ treeResult' = TreeReturned("addVoters",
                             IF emails = <<>> THEN "" ELSE Head(emails),
                             outcome.out, Null, outcome.out = "ok")

\* tree.updateVoter(oldEmail, newEmail)
UpdateVoter(oldEmail, newEmail) ==
    LET outcome == updateVoter(voterTree, oldEmail, newEmail)
    IN  /\ voterTree' = outcome.this
        /\ treeResult' = TreeReturned("updateVoter", oldEmail, outcome.out, Null,
                             outcome.out = "ok")

\* tree.generateProof(email)
GenerateProof(email) ==
    /\ LET proof == treeGenerateProof(voterTree, email)
       IN  treeResult' = TreeReturned("generateProof", email, "ok", proof,
                            proof # Null)
    /\ UNCHANGED voterTree

\* tree.isEligible(email)
IsEligible(email) ==
    /\ treeResult' = TreeReturned("isEligible", email, "ok", Null,
                         isEligible(voterTree, email))
    /\ UNCHANGED voterTree

\* VoterMerkleTree.import(tree.export()): the imported tree is what is returned
ImportExported ==
    /\ treeResult' = [op |-> "import", arg |-> "", out |-> "ok", proof |-> Null,
                      flag |-> TRUE, tree |-> treeImport(treeExport(voterTree))]
    /\ UNCHANGED voterTree

(***************************************************************************)
(* Election.ts: the election under study                                   *)
(***************************************************************************)
\* config.id, and the id of some other election
ElectionId == "e1"
OtherElectionId == "e2"
\* this.candidates.map(c => c.id)
CandidateIds == <<"alice", "bob">>
\* config.trusteePassword, and the passwords tallyResults is tried with
TrusteePassword == "trustee-pw"
Passwords == {"trustee-pw", "wrong-pw"}
\* this.keyPair
keyPair == fromPassword(TrusteePassword)
\* an unset Date (startedAt, endedAt)
NoDate == 0

Range(s) == {s[i] : i \in DOMAIN s}
NoNullifier == [secret |-> "", scope |-> ""]
NoTotals == [c \in {} |-> 0]

VARIABLES
    status,           \* this.status
    voters,           \* this.voters: voter id -> Voter
    group,            \* this.group.members
    votes,            \* this.votes
    usedNullifiers,   \* this.usedNullifiers
    eligibilityTree,  \* this.eligibilityTree (<<>>: undefined)
    startedAt,        \* this.startedAt
    endedAt,          \* this.endedAt
    clock,            \* the Dates read so far: new Date() returns the next one
    pending,          \* the submitVote calls suspended at `await vote.verify()`
    result,           \* what the last call returned or threw
    overlapped        \* history: a submitVote call began while another was suspended

vars == <<status, voters, group, votes, usedNullifiers, eligibilityTree,
          startedAt, endedAt, clock, pending, result, overlapped>>

Returned(op, out) ==
    [op |-> op, out |-> out, nullifier |-> NoNullifier, password |-> "",
     totals |-> NoTotals]

\* new Election(config)
Init ==
    /\ status = "draft"
    /\ voters = [id \in {} |-> Voter("", ElectionId)]
    /\ group = <<>>
    /\ votes = <<>>
    /\ usedNullifiers = {}
    /\ eligibilityTree = <<>>
    /\ startedAt = NoDate
    /\ endedAt = NoDate
    /\ clock = 0
    /\ pending = EmptyBag
    /\ result = Returned("new", "ok")
    /\ overlapped = FALSE

\* the forEach of addVoters and uploadVoters: store each voter
RECURSIVE EnrolVoters(_, _)
EnrolVoters(vs, emails) ==
    IF emails = <<>> THEN vs
    ELSE LET voter == Voter(Head(emails), ElectionId)
         IN  EnrolVoters((voter.id :> voter) @@ vs, Tail(emails))
\* the forEach of addVoters and uploadVoters: add each commitment to the group
EnrolMembers(members, emails) ==
    members \o [i \in 1..Len(emails) |-> Voter(emails[i], ElectionId).commitment]

\* Election.addVoters(voterEmails)
AddVoters(voterEmails) ==
    /\ voters' = EnrolVoters(voters, voterEmails)
    /\ group' = EnrolMembers(group, voterEmails)
    /\ result' = Returned("addVoters", "ok")
    /\ UNCHANGED <<status, votes, usedNullifiers, eligibilityTree, startedAt,
                   endedAt, clock, pending, overlapped>>

\* Election.uploadVoters(csvContent)
UploadVoters(csvContent) ==
    LET emails == CsvEmails(csvContent)
        tree   == VoterMerkleTree(csvContent)
        added  == [i \in 1..Len(emails) |-> tree.voterData[i].email]
    IN  IF emails = <<>>
        THEN /\ result' = Returned("uploadVoters", "No valid emails found in CSV")
             /\ UNCHANGED <<status, voters, group, votes, usedNullifiers,
                            eligibilityTree, startedAt, endedAt, clock, pending,
                            overlapped>>
        ELSE /\ eligibilityTree' = tree
             /\ voters' = EnrolVoters(voters, added)
             /\ group' = EnrolMembers(group, added)
             /\ result' = Returned("uploadVoters", "ok")
             /\ UNCHANGED <<status, votes, usedNullifiers, startedAt, endedAt,
                            clock, pending, overlapped>>

\* start() with a fault: the roster is not checked
startCheckNoRoster(st, vs) ==
    IF st # "draft" THEN "Election already started" ELSE "ok"

\* Election.start(): what it throws, or "ok"
startCheck(st, vs) ==
    IF st # "draft" THEN "Election already started"
    ELSE IF Cardinality(DOMAIN vs) = 0 THEN "Cannot start election with no voters"
    ELSE "ok"

\* Election.start()
Start ==
    /\ result' = Returned("start", startCheck(status, voters))
    /\ IF startCheck(status, voters) = "ok"
       THEN /\ status' = "active"
            /\ clock' = clock + 1
            /\ startedAt' = clock'
       ELSE UNCHANGED <<status, clock, startedAt>>
    /\ UNCHANGED <<voters, group, votes, usedNullifiers, eligibilityTree, endedAt,
                   pending, overlapped>>

\* end() with a fault: the status is not checked
endCheckAlways(st) == "ok"

\* Election.end(): what it throws, or "ok"
endCheck(st) == IF st # "active" THEN "Election is not active" ELSE "ok"

\* Election.end()
End ==
    /\ result' = Returned("end", endCheck(status))
    /\ IF endCheck(status) = "ok"
       THEN /\ status' = "ended"
            /\ clock' = clock + 1
            /\ endedAt' = clock'
       ELSE UNCHANGED <<status, clock, endedAt>>
    /\ UNCHANGED <<voters, group, votes, usedNullifiers, eligibilityTree, startedAt,
                   pending, overlapped>>

\* Election.arraysEqual
arraysEqual(a, b) == Len(a) = Len(b) /\ \A i \in 1..Len(a) : a[i] = b[i]

\* submitVote with a fault: the nullifier is not looked up
submitVoteCheckNoNullifier(st, used, vote) ==
    IF st # "active" THEN "Election is not active" ELSE "await"

\* Election.submitVote up to its await: what it returns, or "await"
submitVoteCheck(st, used, vote) ==
    IF st # "active" THEN "Election is not active"
    ELSE IF vote.nullifier \in used THEN "Voter has already voted"
    ELSE "await"

\* submitVote with a fault: the candidate order is compared before the proof is
\* looked at
submitVoteResumeOrderFirst(vote) ==
    IF verifyThrows(vote) THEN Rejected
    ELSE IF ~arraysEqual(getCandidateOrder(vote), CandidateIds)
         THEN "Invalid candidate order in vote vector"
    ELSE IF ~verify(vote) THEN "Invalid vote proof"
    ELSE "success"

\* Election.submitVote after its await: what it returns
submitVoteResume(vote) ==
    IF verifyThrows(vote) THEN Rejected
    ELSE IF ~verify(vote) THEN "Invalid vote proof"
    ELSE IF ~arraysEqual(getCandidateOrder(vote), CandidateIds)
         THEN "Invalid candidate order in vote vector"
    ELSE "success"

SubmitReturned(op, vote, out) ==
    [Returned(op, out) EXCEPT !.nullifier = vote.nullifier]

\* Election.submitVote(vote), from the call to its return or to its suspension
\* at `await vote.verify()`
SubmitVoteCall(vote) ==
    LET out == submitVoteCheck(status, usedNullifiers, vote)
    IN  /\ result' = SubmitReturned("submitVote", vote, out)
        /\ IF out = "await"
           THEN /\ pending' = pending (+) SetToBag({vote})
                /\ overlapped' = (overlapped \/ pending # EmptyBag)
           ELSE UNCHANGED <<pending, overlapped>>
        /\ UNCHANGED <<status, voters, group, votes, usedNullifiers,
                       eligibilityTree, startedAt, endedAt, clock>>

\* submitVote with a fault: the nullifier is recorded whatever the outcome
addNullifierAlways(used, vote, out) == used \cup {vote.nullifier}
\* Election.submitVote: the used nullifiers when it returns `out`
addNullifier(used, vote, out) ==
    IF out = "success" THEN used \cup {vote.nullifier} ELSE used

\* Election.submitVote(vote), from the completion of vote.verify() to its return
SubmitVoteResume(vote) ==
    LET out == submitVoteResume(vote)
    IN  /\ BagIn(vote, pending)
        /\ pending' = pending (-) SetToBag({vote})
        /\ result' = SubmitReturned("submitVote resumed", vote, out)
        /\ votes' = IF out = "success" THEN Append(votes, vote) ELSE votes
        /\ usedNullifiers' = addNullifier(usedNullifiers, vote, out)
        /\ UNCHANGED <<status, voters, group, eligibilityTree, startedAt, endedAt,
                       clock, overlapped>>

\* Election.tallyResults from the aggregation on, for a non-empty ballot list
aggregateAndDecrypt(vts) ==
    LET aggregatedByPosition ==
            [pos \in 1..Len(CandidateIds) |->
                aggregate([i \in 1..Len(vts) |-> getEncryptedVoteAt(vts[i], pos)])]
        total == [pos \in 1..Len(CandidateIds) |->
                    decrypt(keyPair, aggregatedByPosition[pos])]
    IN  IF \E pos \in 1..Len(CandidateIds) : total[pos] = DecryptionFailed
        THEN [out |-> "Decryption failed", totals |-> NoTotals]
        ELSE [out |-> "ok",
              totals |-> [c \in Range(CandidateIds) |->
                            total[CHOOSE pos \in 1..Len(CandidateIds) :
                                      CandidateIds[pos] = c]]]

\* tallyResults with a fault: the password is checked before the status
tallyResultsPasswordFirst(st, vts, trusteePassword) ==
    IF fromPassword(trusteePassword).publicKey.h # keyPair.publicKey.h
    THEN [out |-> "Invalid trustee password", totals |-> NoTotals]
    ELSE IF st # "ended"
    THEN [out |-> "Cannot tally votes until election ends", totals |-> NoTotals]
    ELSE IF Len(vts) = 0
    THEN [out |-> "ok", totals |-> [c \in Range(CandidateIds) |-> 0]]
    ELSE aggregateAndDecrypt(vts)

\* Election.tallyResults(trusteePassword): what it throws or "ok", and the totals
tallyResults(st, vts, trusteePassword) ==
    IF st # "ended"
    THEN [out |-> "Cannot tally votes until election ends", totals |-> NoTotals]
    ELSE IF fromPassword(trusteePassword).publicKey.h # keyPair.publicKey.h
    THEN [out |-> "Invalid trustee password", totals |-> NoTotals]
    ELSE IF Len(vts) = 0
    THEN [out |-> "ok", totals |-> [c \in Range(CandidateIds) |-> 0]]
    ELSE aggregateAndDecrypt(vts)

\* Election.tallyResults(trusteePassword)
TallyResults(trusteePassword) ==
    LET r == tallyResults(status, votes, trusteePassword)
    IN  /\ result' = [Returned("tallyResults", r.out) EXCEPT
                         !.password = trusteePassword, !.totals = r.totals]
        /\ UNCHANGED <<status, voters, group, votes, usedNullifiers,
                       eligibilityTree, startedAt, endedAt, clock, pending,
                       overlapped>>

(***************************************************************************)
(* Spec: enrolment, the lifecycle and the intake of ballots, with          *)
(* submitVote calls that overlap.  An enrolled voter proves membership of  *)
(* the election's group as it stands, anyone else membership of a group of *)
(* their own making.                                                       *)
(***************************************************************************)
\* the lists addVoters is called with
VoterLists == { <<>>, <<"a@x">>, <<"a@x", "b@x">> }
\* the CSV files uploadVoters is called with
Csvs == { "email,name\nA@x \na@x,Ann\nb@x", "email,name\nn/a" }

VoterIdentity(email) == IdentitySecret(email, ElectionId)
GroupOf(email) ==
    IF Commitment(VoterIdentity(email)) \in Range(group) THEN group
    ELSE <<Commitment(VoterIdentity(email))>>
Reversed(s) == [i \in 1..Len(s) |-> s[Len(s) + 1 - i]]
\* the r-th draw of ephemeral keys, one key per position
Draw(r) == [k \in 1..Len(CandidateIds) |-> 1 + ((r + k) % MaxRand)]

\* the ballots submitVote is called with
IntakeBallots ==
    LET pk == keyPair.publicKey
    IN  { cast(VoterIdentity("a@x"), GroupOf("a@x"), c, CandidateIds, pk,
               ElectionId, Draw(1)) : c \in Range(CandidateIds) }
        \cup
        { cast(VoterIdentity("b@x"), GroupOf("b@x"), "alice", CandidateIds, pk,
               ElectionId, Draw(1)),
          cast(VoterIdentity("a@x"), GroupOf("a@x"), "alice", CandidateIds, pk,
               OtherElectionId, Draw(1)),
          cast(VoterIdentity("a@x"), GroupOf("a@x"), "alice",
               Reversed(CandidateIds), pk, ElectionId, Draw(1)),
          Tampered(cast(VoterIdentity("b@x"), GroupOf("b@x"), "bob", CandidateIds,
                        pk, ElectionId, Draw(1))) }

InFlight == Len(votes) + BagCardinality(pending)

(***************************************************************************)
(* Election.ts: statistics, export and import                              *)
(***************************************************************************)
\* config.title
ElectionTitle == "Board election"
\* this.createdAt = new Date() of the constructor
CreatedAt == 0
\* bigint.toString() / BigInt(string) of a group member
ToDecimal(member) == [decimal |-> member]
FromDecimal(s) == s.decimal

\* Election.getStats(); the quotient of turnout is kept as a fraction
getStats ==
    [totalVoters |-> Cardinality(DOMAIN voters),
     totalVotes  |-> Cardinality(usedNullifiers),
     turnout     |-> IF Cardinality(DOMAIN voters) > 0
                     THEN [num |-> Cardinality(usedNullifiers) * 100,
                           den |-> Cardinality(DOMAIN voters)]
                     ELSE [num |-> 0, den |-> 1],
     votesByCandidateCount |-> [c \in Range(CandidateIds) |-> Len(votes)]]

\* Election.export()
export ==
    [id               |-> ElectionId,
     title            |-> ElectionTitle,
     status           |-> status,
     publicKey        |-> "{\"h\":" \o JsonString(HexText(keyPair.publicKey.h)) \o "}",
     groupRoot        |-> GroupRoot(group),
     groupMembers     |-> [k \in 1..Len(group) |-> ToDecimal(group[k])],
     candidates       |-> CandidateIds,
     eligibilityRoot  |-> IF DOMAIN eligibilityTree = {} THEN Null
                          ELSE <<getRoot(eligibilityTree)>>,
     eligibilityDepth |-> IF DOMAIN eligibilityTree = {} THEN Null
                          ELSE <<depth(eligibilityTree)>>,
     createdAt        |-> CreatedAt,
     startedAt        |-> startedAt,
     endedAt          |-> endedAt]

\* import with a fault: the status of the state is not restored
importAsDraft(state, trusteePassword) ==
    [id              |-> state.id,
     title           |-> state.title,
     candidates      |-> state.candidates,
     keyPair         |-> fromPassword(trusteePassword),
     group           |-> [k \in 1..Len(state.groupMembers) |->
                            FromDecimal(state.groupMembers[k])],
     voters          |-> [id \in {} |-> Voter("", state.id)],
     votes           |-> <<>>,
     usedNullifiers  |-> {},
     eligibilityTree |-> <<>>,
     status          |-> "draft",
     createdAt       |-> state.createdAt,
     startedAt       |-> state.startedAt,
     endedAt         |-> state.endedAt]
\* Election.import(state, trusteePassword): the election it returns; the group
\* takes the members by the contract of Group.addMembers, for any list of them
import(state, trusteePassword) ==
    [id              |-> state.id,
     title           |-> state.title,
     candidates      |-> state.candidates,
     keyPair         |-> fromPassword(trusteePassword),
     group           |-> [k \in 1..Len(state.groupMembers) |->
                            FromDecimal(state.groupMembers[k])],
     voters          |-> [id \in {} |-> Voter("", state.id)],
     votes           |-> <<>>,
     usedNullifiers  |-> {},
     eligibilityTree |-> <<>>,
     status          |-> state.status,
     createdAt       |-> state.createdAt,
     startedAt       |-> state.startedAt,
     endedAt         |-> state.endedAt]

\* election.getStats()
GetStats ==
    /\ result' = [op |-> "getStats", out |-> "ok", nullifier |-> NoNullifier,
                  password |-> "", totals |-> NoTotals, stats |-> getStats]
    /\ UNCHANGED <<status, voters, group, votes, usedNullifiers, eligibilityTree,
                   startedAt, endedAt, clock, pending, overlapped>>

\* Election.import(election.export(), trusteePassword)
ImportElection(trusteePassword) ==
    /\ result' = [op |-> "import", out |-> "ok", nullifier |-> NoNullifier,
                  password |-> trusteePassword, totals |-> NoTotals,
                  state |-> export,
                  election |-> import(export, trusteePassword)]
    /\ UNCHANGED <<status, voters, group, votes, usedNullifiers, eligibilityTree,
                   startedAt, endedAt, clock, pending, overlapped>>

\* the ballots submitVote is called with in SpecIntake
SubmittedBallots ==
    LET pk == keyPair.publicKey
    IN  { cast(VoterIdentity("a@x"), GroupOf("a@x"), c, CandidateIds, pk,
               ElectionId, Draw(1)) : c \in Range(CandidateIds) }
        \cup
        { cast(VoterIdentity("b@x"), GroupOf("b@x"), "alice", CandidateIds, pk,
               ElectionId, Draw(1)),
          Malformed(cast(VoterIdentity("b@x"), GroupOf("b@x"), "bob", CandidateIds,
                         pk, ElectionId, Draw(1))),
          Tampered(cast(VoterIdentity("a@x"), GroupOf("a@x"), "alice",
                        Reversed(CandidateIds), pk, ElectionId, Draw(1))),
          cast(VoterIdentity("b@x"), GroupOf("b@x"), "alice", <<"alice">>, pk,
               ElectionId, Draw(1)) }

(***************************************************************************)
(* Vote.ts in use: ballots cast one after the other                        *)
(***************************************************************************)
VARIABLES
    lastCast,      \* the last call of Vote.cast and the Vote it returned
    earlierCast,   \* the call before it
    castClock      \* new Date(), the number of calls so far

voteVars == <<lastCast, earlierCast, castClock>>

\* calls of Vote.cast in SpecVote
MaxCasts == 2

\* the voters that cast: two of the election, one of another election
CastVoters ==
    << [email |-> "a@x", electionId |-> ElectionId],
       [email |-> "b@x", electionId |-> ElectionId],
       [email |-> "a@x", electionId |-> OtherElectionId] >>
\* the candidate ids they select
CastChoices == Range(CandidateIds) \cup {"nobody"}
\* the group of an election: the commitments of its voters
CastGroup(electionId) ==
    LET members == SelectSeq(CastVoters, LAMBDA v : v.electionId = electionId)
    IN  [k \in 1..Len(members) |->
            Voter(members[k].email, members[k].electionId).commitment]
NoCast == [email |-> "", electionId |-> "", selected |-> "", vote |-> Null]

VoteInit ==
    /\ lastCast = NoCast
    /\ earlierCast = NoCast
    /\ castClock = 0

\* Vote.cast(voter.identity, group, selected, candidateOrder, publicKey, electionId)
CastBallot(voter, selected, r) ==
    /\ earlierCast' = lastCast
    /\ lastCast' =
          [email      |-> voter.email,
           electionId |-> voter.electionId,
           selected   |-> selected,
           vote       |-> castAt(Voter(voter.email, voter.electionId).identity,
                                 CastGroup(voter.electionId), selected,
                                 CandidateIds, keyPair.publicKey,
                                 voter.electionId, Draw(r), castClock)]
    /\ castClock' = castClock + 1

(***************************************************************************)
(* VoterMerkleTree.ts in use: a tree and the tree imported from its export *)
(*                                                                         *)
(* export() hands out this.voterMap and import() stores data.voterMap, so  *)
(* tree1 and tree2 hold one Map object; each has a MerkleTree and a voter  *)
(* data array of its own.                                                  *)
(***************************************************************************)
VARIABLES
    tree1,          \* tree and voterData of the tree that is exported
    tree2,          \* tree and voterData of the tree that import returned
    voterMapObject, \* the Map that tree1.voterMap and tree2.voterMap refer to
    shareResult     \* the last call: its receiver, its name and what it threw

shareVars == <<tree1, tree2, voterMapObject, shareResult>>

\* the emails and the batches the two trees are called with
ShareEmails == { "b@x", "c@x" }
ShareBatches == { <<"c@x", "a@x">> }

\* the object a tree is: its own fields and the Map it refers to
ObjectOf(fields) ==
    [tree |-> fields.tree, voterMap |-> voterMapObject, voterData |-> fields.voterData]
FieldsOf(this) == [tree |-> this.tree, voterData |-> this.voterData]
Receiver(which) == ObjectOf(IF which = "tree1" THEN tree1 ELSE tree2)

\* tree1 = new VoterMerkleTree(csv); tree2 = VoterMerkleTree.import(tree1.export())
ShareInit ==
    LET this == VoterMerkleTree("a@x")
    IN  /\ tree1 = FieldsOf(this)
        /\ tree2 = FieldsOf(treeImport(treeExport(this)))
        /\ voterMapObject = this.voterMap
        /\ shareResult = [which |-> "tree2", op |-> "import", out |-> "ok"]

\* a call on one of the two trees that leaves `outcome`: the receiver's fields
\* and the Map it refers to are what the call left
CallOn(which, op, outcome) ==
    /\ tree1' = IF which = "tree1" THEN FieldsOf(outcome.this) ELSE tree1
    /\ tree2' = IF which = "tree2" THEN FieldsOf(outcome.this) ELSE tree2
    /\ voterMapObject' = outcome.this.voterMap
    /\ shareResult' = [which |-> which, op |-> op, out |-> outcome.out]

\* tree1.addVoter(email) or tree2.addVoter(email)
AddVoterOn(which, email) ==
    CallOn(which, "addVoter", addVoter(Receiver(which), email))
\* tree1.addVoters(emails) or tree2.addVoters(emails)
AddVotersOn(which, emails) ==
    CallOn(which, "addVoters", addVoters(Receiver(which), emails))
\* tree1.updateVoter(oldEmail, newEmail) or tree2.updateVoter(oldEmail, newEmail)
UpdateVoterOn(which, oldEmail, newEmail) ==
    CallOn(which, "updateVoter", updateVoter(Receiver(which), oldEmail, newEmail))

\* the objects exercised on their own (a key pair and its ciphertexts, a voter and
\* its token, an eligibility tree, ballots, a tree and its import), which no
\* Election call touches
benchVars == <<elgamalVars, voterVars, treeVars, voteVars, shareVars>>
BenchInit == ElGamalInit /\ VoterInit /\ TreeInit /\ VoteInit /\ ShareInit
\* the election as constructed, and the objects exercised on their own
InitAll == Init /\ BenchInit

Next ==
    \/ /\ \E voterEmails \in VoterLists :
             /\ Len(group) + Len(voterEmails) <= MaxGroup
             /\ AddVoters(voterEmails)
       /\ UNCHANGED benchVars
    \/ /\ \E csvContent \in Csvs :
             /\ Len(group) + Len(CsvEmails(csvContent)) <= MaxGroup
             /\ UploadVoters(csvContent)
       /\ UNCHANGED benchVars
    \/ Start /\ UNCHANGED benchVars
    \/ End /\ UNCHANGED benchVars
    \/ /\ \E vote \in IntakeBallots :
             /\ submitVoteCheck(status, usedNullifiers, vote) = "await"
                   => InFlight < MaxVotes
             /\ SubmitVoteCall(vote)
       /\ UNCHANGED benchVars
    \/ /\ \E vote \in BagToSet(pending) : SubmitVoteResume(vote)
       /\ UNCHANGED benchVars
    \/ /\ \E password \in Passwords : TallyResults(password)
       /\ UNCHANGED benchVars

Spec == InitAll /\ [][Next]_vars

(***************************************************************************)
(* SpecTally: the same election with a roster of three, ballots under      *)
(* every draw of the ephemeral keys, one ballot encrypted under a foreign  *)
(* key, and submitVote calls made one after another.                       *)
(***************************************************************************)
TallyRoster == <<"a@x", "b@x", "c@x">>
ForeignKey == fromPassword("wrong-pw").publicKey

TallyBallots ==
    { cast(VoterIdentity(e), group, c, CandidateIds, keyPair.publicKey, ElectionId,
           Draw(r)) :
        e \in {x \in Range(TallyRoster) : Commitment(VoterIdentity(x)) \in Range(group)},
        c \in Range(CandidateIds), r \in 1..MaxRand }
    \cup
    { cast(VoterIdentity(e), group, "alice", CandidateIds, ForeignKey, ElectionId,
           Draw(1)) :
        e \in {x \in {"c@x"} : Commitment(VoterIdentity(x)) \in Range(group)} }

NextTally ==
    \/ group = <<>> /\ AddVoters(TallyRoster) /\ UNCHANGED benchVars
    \/ Start /\ UNCHANGED benchVars
    \/ End /\ UNCHANGED benchVars
    \/ /\ \E vote \in TallyBallots : pending = EmptyBag /\ SubmitVoteCall(vote)
       /\ UNCHANGED benchVars
    \/ /\ \E vote \in BagToSet(pending) : SubmitVoteResume(vote)
       /\ UNCHANGED benchVars
    \/ /\ \E password \in Passwords : TallyResults(password)
       /\ UNCHANGED benchVars

SpecTally == InitAll /\ [][NextTally]_vars

(***************************************************************************)
(* SpecIntake: the same election with submitVote calls that overlap, one   *)
(* ballot whose verification throws, statistics, and export and import.    *)
(***************************************************************************)
NextIntake ==
    \/ /\ \E voterEmails \in VoterLists :
             /\ Len(group) + Len(voterEmails) <= MaxGroup
             /\ AddVoters(voterEmails)
       /\ UNCHANGED benchVars
    \/ Start /\ UNCHANGED benchVars
    \/ End /\ UNCHANGED benchVars
    \/ /\ \E vote \in SubmittedBallots :
             /\ submitVoteCheck(status, usedNullifiers, vote) = "await"
                   => InFlight < MaxVotes
             /\ SubmitVoteCall(vote)
       /\ UNCHANGED benchVars
    \/ /\ \E vote \in BagToSet(pending) : SubmitVoteResume(vote)
       /\ UNCHANGED benchVars
    \/ GetStats /\ UNCHANGED benchVars
    \/ /\ \E password \in Passwords : ImportElection(password)
       /\ UNCHANGED benchVars

SpecIntake == InitAll /\ [][NextIntake]_vars

(***************************************************************************)
(* SpecEnrol: enrolment by addVoters and by uploadVoters in any order, and *)
(* the eligibility the election answers for an email.                      *)
(***************************************************************************)
MaxEnrolled == 3
\* the lists addVoters is called with
EnrolLists == { <<"a@x">>, <<"c@x">> }
\* the CSV files uploadVoters is called with
EnrolCsvs == { "email\na@x", "email\nb@x" }
\* the emails isVoterEligible is asked about
EnrolQueries == { "a@x", "b@x", " C@x " }

\* Election.isVoterEligible(email)
isVoterEligible(email) ==
    IF DOMAIN eligibilityTree = {}
    THEN LET normalized == Trim(ToLowerCase(email))
         IN  \E id \in DOMAIN voters : ToLowerCase(voters[id].email) = normalized
    ELSE isEligible(eligibilityTree, email)

\* a call of Election.isVoterEligible(email)
IsVoterEligible(email) ==
    /\ result' = Returned("isVoterEligible " \o email,
                          IF isVoterEligible(email) THEN "true" ELSE "false")
    /\ UNCHANGED <<status, voters, group, votes, usedNullifiers, eligibilityTree,
                   startedAt, endedAt, clock, pending, overlapped>>

NextEnrol ==
    \/ /\ \E voterEmails \in EnrolLists :
             /\ Len(group) + Len(voterEmails) <= MaxEnrolled
             /\ AddVoters(voterEmails)
       /\ UNCHANGED benchVars
    \/ /\ \E csvContent \in EnrolCsvs :
             /\ Len(group) + Len(CsvEmails(csvContent)) <= MaxEnrolled
             /\ UploadVoters(csvContent)
       /\ UNCHANGED benchVars
    \/ /\ \E email \in EnrolQueries : IsVoterEligible(email)
       /\ UNCHANGED benchVars

SpecEnrol == InitAll /\ [][NextEnrol]_vars

(***************************************************************************)
(* SpecElGamal: a key pair derived from a password or built from a private *)
(* key, messages encrypted under it, and the ciphertexts decrypted, added  *)
(* and aggregated.  The election is left as constructed.                   *)
(***************************************************************************)
NextElGamal ==
    \/ /\ \E password \in KeyPasswords : FromPassword(password)
       /\ UNCHANGED <<shareVars, vars, voterVars, treeVars, voteVars>>
    \/ /\ \E x \in PrivateKeys : NewKeyPair(x)
       /\ UNCHANGED <<shareVars, vars, voterVars, treeVars, voteVars>>
    \/ /\ \E message \in Messages, r \in EphemeralKeys :
             /\ Len(ciphertexts) < MaxCiphertexts
             /\ Encrypt(message, r)
       /\ UNCHANGED <<shareVars, vars, voterVars, treeVars, voteVars>>
    \/ /\ \E i \in 1..Len(ciphertexts) :
             \E kp \in {elgamalKeyPair, fromPassword("wrong-pw")} : Decrypt(i, kp)
       /\ UNCHANGED <<shareVars, vars, voterVars, treeVars, voteVars>>
    \/ /\ \E i, j \in 1..Len(ciphertexts) : Add(i, j)
       /\ UNCHANGED <<shareVars, vars, voterVars, treeVars, voteVars>>
    \/ /\ \E n \in 0..Len(ciphertexts) : Aggregate(n)
       /\ UNCHANGED <<shareVars, vars, voterVars, treeVars, voteVars>>

SpecElGamal == InitAll /\ [][NextElGamal]_elgamalVars

(***************************************************************************)
(* SpecVoter: a voter, the tokens issued to it, and the calls on them as   *)
(* the hours pass.  The election is left as constructed.                   *)
(***************************************************************************)
NextVoter ==
    \/ /\ \E email \in VoterEmails, electionId \in VoterElectionIds :
             NewVoter(email, electionId)
       /\ UNCHANGED <<shareVars, vars, elgamalVars, treeVars, voteVars>>
    \/ /\ \E expiryHours \in ExpiryHours :
             randomDraws < MaxTokens /\ GenerateToken(expiryHours)
       /\ UNCHANGED <<shareVars, vars, elgamalVars, treeVars, voteVars>>
    \/ /\ \E token \in issuedTokens \cup OtherStrings : VerifyToken(token)
       /\ UNCHANGED <<shareVars, vars, elgamalVars, treeVars, voteVars>>
    \/ MarkTokenUsed /\ UNCHANGED <<shareVars, vars, elgamalVars, treeVars, voteVars>>
    \/ IsTokenExpired /\ UNCHANGED <<shareVars, vars, elgamalVars, treeVars, voteVars>>
    \/ /\ \E token \in issuedTokens \cup OtherStrings : ParseToken(token)
       /\ UNCHANGED <<shareVars, vars, elgamalVars, treeVars, voteVars>>
    \/ tokenClock < MaxHours /\ HourPasses /\ UNCHANGED <<shareVars, vars, elgamalVars, treeVars, voteVars>>

SpecVoter == InitAll /\ [][NextVoter]_voterVars

(***************************************************************************)
(* SpecTree: an eligibility tree built from a CSV, voters added to it one  *)
(* by one and in batches, emails updated, proofs generated.  The election  *)
(* is left as constructed.                                                 *)
(***************************************************************************)
NextTree ==
    \/ /\ \E csvContent \in TreeCsvs : BuildTree(csvContent)
       /\ UNCHANGED <<shareVars, vars, elgamalVars, voterVars, voteVars>>
    \/ /\ \E email \in TreeEmails :
             Len(voterTree.voterData) < MaxLeaves /\ AddVoter(email)
       /\ UNCHANGED <<shareVars, vars, elgamalVars, voterVars, voteVars>>
    \/ /\ \E emails \in TreeBatches :
             /\ Len(voterTree.voterData) + Len(emails) <= MaxLeaves
             /\ AddVotersToTree(emails)
       /\ UNCHANGED <<shareVars, vars, elgamalVars, voterVars, voteVars>>
    \/ /\ \E oldEmail, newEmail \in TreeEmails : UpdateVoter(oldEmail, newEmail)
       /\ UNCHANGED <<shareVars, vars, elgamalVars, voterVars, voteVars>>
    \/ /\ \E email \in TreeEmails : GenerateProof(email)
       /\ UNCHANGED <<shareVars, vars, elgamalVars, voterVars, voteVars>>
    \/ /\ \E email \in TreeEmails : IsEligible(email)
       /\ UNCHANGED <<shareVars, vars, elgamalVars, voterVars, voteVars>>
    \/ /\ ImportExported
       /\ UNCHANGED <<shareVars, vars, elgamalVars, voterVars, voteVars>>

SpecTree == InitAll /\ [][NextTree]_treeVars

(***************************************************************************)
(* SpecShare: a tree and the tree imported from its export, each called    *)
(* with addVoter, addVoters and updateVoter.  The updateVoter calls whose   *)
(* index lies past the end of the receiver's voter data, which leave a     *)
(* hole in that array, are not made.                                       *)
(***************************************************************************)
NextShare ==
    \/ /\ \E which \in {"tree1", "tree2"}, email \in ShareEmails :
             /\ Len(Receiver(which).voterData) < MaxLeaves
             /\ AddVoterOn(which, email)
       /\ UNCHANGED <<vars, elgamalVars, voterVars, treeVars, voteVars>>
    \/ /\ \E which \in {"tree1", "tree2"}, emails \in ShareBatches :
             /\ Len(Receiver(which).voterData) + Len(emails) <= MaxLeaves
             /\ AddVotersOn(which, emails)
       /\ UNCHANGED <<vars, elgamalVars, voterVars, treeVars, voteVars>>
    \/ /\ \E which \in {"tree1", "tree2"}, oldEmail, newEmail \in ShareEmails :
             /\ oldEmail \in DOMAIN voterMapObject
                   => voterMapObject[oldEmail] <= Len(Receiver(which).voterData)
             /\ UpdateVoterOn(which, oldEmail, newEmail)
       /\ UNCHANGED <<vars, elgamalVars, voterVars, treeVars, voteVars>>

SpecShare == InitAll /\ [][NextShare]_shareVars

NextVote ==
    /\ \E k \in 1..Len(CastVoters), selected \in CastChoices, r \in 1..MaxRand :
          castClock < MaxCasts /\ CastBallot(CastVoters[k], selected, r)
    /\ UNCHANGED <<shareVars, vars, elgamalVars, voterVars, treeVars>>

SpecVote == InitAll /\ [][NextVote]_voteVars

(***************************************************************************)
(* Properties                                                              *)
(***************************************************************************)
\* what a stored ballot hides: who proved it and whom it selects
ProverOf(vote) == vote.nullifier.secret
SelectedBy(vote) == vote.ghost.selected
\* the ballots of vts that select candidate c
CountFor(vts, c) == Cardinality({i \in 1..Len(vts) : SelectedBy(vts[i]) = c})

\* C1: with submitVote calls made one after another, the ballot list holds at
\* most one ballot proved by any one voter identity.
C1_OneBallotPerVoter ==
    ~overlapped =>
        \A i, j \in 1..Len(votes) : ProverOf(votes[i]) = ProverOf(votes[j]) => i = j

\* C2: every stored ballot was proved by an identity whose commitment is a member
\* of the election's group, against the election's group (as it stood at some
\* time: the group only grows).
C2_OnlyEnrolledVotersStored ==
    \A i \in 1..Len(votes) :
        /\ Commitment(ProverOf(votes[i])) \in Range(group)
        /\ \E n \in 1..Len(group) :
              votes[i].proof.merkleTreeRoot = GroupRoot(SubSeq(group, 1, n))

\* C3: with submitVote calls made one after another on an active election, a
\* ballot whose nullifier is in usedNullifiers is rejected with "Voter has already
\* voted" and stores nothing, and the tally counts, per nullifier, the first
\* accepted ballot only.
FirstChoice(n) ==
    SelectedBy(votes[CHOOSE i \in 1..Len(votes) :
                        /\ votes[i].nullifier = n
                        /\ \A j \in 1..(i - 1) : votes[j].nullifier # n])
C3_DoubleVoteRejected ==
    /\ [][(/\ result'.op = "submitVote"
           /\ ~overlapped'
           /\ status = "active"
           /\ result'.nullifier \in usedNullifiers)
          => (/\ result'.out = "Voter has already voted"
              /\ votes' = votes
              /\ usedNullifiers' = usedNullifiers)]_vars
    /\ [](/\ result.op = "tallyResults"
          /\ result.out = "ok"
          /\ ~overlapped
          => \A c \in Range(CandidateIds) :
                result.totals[c] =
                    Cardinality({n \in usedNullifiers : FirstChoice(n) = c}))
C3_Witness ==
    /\ ~overlapped
    /\ result.op = "submitVote"
    /\ result.out = "Voter has already voted"
    /\ Len(votes) = 1

\* C4: the status changes only from draft to active, by a successful start(), and
\* from active to ended, by a successful end().
C4_StatusOrder ==
    [][\/ status' = status
       \/ /\ status = "draft" /\ status' = "active"
          /\ result'.op = "start" /\ result'.out = "ok"
       \/ /\ status = "active" /\ status' = "ended"
          /\ result'.op = "end" /\ result'.out = "ok"]_vars
C4_Witness ==
    status = "ended" /\ result.op = "end" /\ result.out = "ok" /\ endedAt > startedAt

\* C5: start() throws "Election already started" unless the status is draft, else
\* "Cannot start election with no voters" when there are none; end() throws
\* "Election is not active" unless the status is active; a start() or end() that
\* throws leaves status, startedAt and endedAt as they were.
C5_StartEndFailures ==
    [][/\ result'.op = "start" =>
            result'.out =
                IF status # "draft" THEN "Election already started"
                ELSE IF DOMAIN voters = {}
                     THEN "Cannot start election with no voters" ELSE "ok"
       /\ result'.op = "end" =>
            result'.out = IF status # "active" THEN "Election is not active" ELSE "ok"
       /\ (result'.op \in {"start", "end"} /\ result'.out # "ok") =>
            UNCHANGED <<status, startedAt, endedAt>>]_vars
C5_Witness ==
    /\ result.op = "start"
    /\ result.out = "Cannot start election with no voters"
    /\ status = "draft"
    /\ startedAt = NoDate

\* C6: a submitVote call made while the status is draft or ended returns
\* "Election is not active" and stores nothing, and every ballot is stored while
\* the status is active.
C6_StoredOnlyWhileActive ==
    /\ [][(result'.op = "submitVote" /\ status # "active")
          => (result'.out = "Election is not active" /\ votes' = votes)]_vars
    /\ [][votes' # votes => status = "active"]_vars

\* C7 as stated: tallyResults throws "Cannot tally votes until election ends"
\* whenever the status is not ended, whatever the password; on an ended election it
\* throws "Invalid trustee password" iff the key derived from the password differs
\* from the stored one, and it succeeds with the creation password.
C7_AsStated ==
    [][result'.op = "tallyResults" =>
          /\ status # "ended" =>
                result'.out = "Cannot tally votes until election ends"
          /\ status = "ended" =>
                (result'.out = "Invalid trustee password"
                    <=> fromPassword(result'.password).publicKey.h
                            # keyPair.publicKey.h)
          /\ (status = "ended" /\ result'.password = TrusteePassword) =>
                result'.out = "ok"]_vars
\* every stored ballot is encrypted under the election's key and no candidate was
\* selected by more than MAX_VOTES of them
WithinDecryptableRange(vts) ==
    /\ \A i \in 1..Len(vts) : vts[i].ghost.h = keyPair.publicKey.h
    /\ \A c \in Range(CandidateIds) : CountFor(vts, c) <= MAX_VOTES
\* C7 as amended: the two failures are as stated; with the creation password on an
\* ended election tallyResults either succeeds or throws "Decryption failed", and
\* it succeeds when every stored ballot is encrypted under the election's key and
\* no candidate was selected by more than MAX_VOTES of them.
C7_TallyFailures ==
    [][result'.op = "tallyResults" =>
          /\ status # "ended" =>
                result'.out = "Cannot tally votes until election ends"
          /\ status = "ended" =>
                (result'.out = "Invalid trustee password"
                    <=> fromPassword(result'.password).publicKey.h
                            # keyPair.publicKey.h)
          /\ (status = "ended" /\ result'.password = TrusteePassword) =>
                /\ result'.out \in {"ok", "Decryption failed"}
                /\ WithinDecryptableRange(votes) => result'.out = "ok"]_vars
C7_Witness ==
    /\ result.op = "tallyResults"
    /\ status = "ended"
    /\ result.password = TrusteePassword
    /\ result.out = "Decryption failed"

\* C8 as stated: on an ended election whose stored ballots were each cast for a
\* candidate of the list, tallyResults with the creation password maps every
\* candidate to the number of stored ballots that selected it (to 0 when no ballot
\* is stored).
C8_AsStated ==
    (/\ result.op = "tallyResults"
     /\ result.password = TrusteePassword
     /\ status = "ended"
     /\ \A i \in 1..Len(votes) : SelectedBy(votes[i]) \in Range(CandidateIds))
    => /\ result.out = "ok"
       /\ \A c \in Range(CandidateIds) : result.totals[c] = CountFor(votes, c)
\* C8 as amended: the same, for an election whose stored ballots are all encrypted
\* under the election's public key and none of whose candidates was selected by
\* more than MAX_VOTES stored ballots.
C8_TallyCorrect ==
    (/\ result.op = "tallyResults"
     /\ result.password = TrusteePassword
     /\ status = "ended"
     /\ \A i \in 1..Len(votes) : SelectedBy(votes[i]) \in Range(CandidateIds)
     /\ WithinDecryptableRange(votes))
    => /\ result.out = "ok"
       /\ DOMAIN result.totals = Range(CandidateIds)
       /\ \A c \in Range(CandidateIds) : result.totals[c] = CountFor(votes, c)
C8_Witness ==
    /\ result.op = "tallyResults"
    /\ result.out = "ok"
    /\ Len(votes) = 3
    /\ result.totals["alice"] = 2
    /\ result.totals["bob"] = 1

\* C9: once end() has succeeded no ballot is stored, so the tally of an ended
\* election does not change.
C9_NoBallotAfterEnd ==
    [][status = "ended" =>
          /\ Len(votes') = Len(votes)
          /\ tallyResults(status', votes', TrusteePassword)
               = tallyResults(status, votes, TrusteePassword)]_vars

\* C10: in every reachable state, suspended submitVote calls or not, the ballots
\* stored are as many as the nullifiers used and have pairwise distinct nullifiers.
C10_NullifiersDistinct ==
    /\ Len(votes) = Cardinality(usedNullifiers)
    /\ \A i, j \in 1..Len(votes) : votes[i].nullifier = votes[j].nullifier => i = j

\* C11: encrypt succeeds iff 0 <= m <= MAX_VOTES, and every ciphertext it returns
\* (that of m = 0 included) decrypts under the key pair's private key to its m.
C11_RoundTrip ==
    /\ elgamalResult.op = "encrypt" =>
          (elgamalResult.ct # EncryptionFailed
              <=> elgamalResult.message \in 0..MAX_VOTES)
    /\ \A i \in 1..Len(ciphertexts) :
          /\ plaintexts[i] \in 0..MAX_VOTES
          /\ decrypt(elgamalKeyPair, ciphertexts[i]) = plaintexts[i]
    /\ (/\ elgamalResult.op = "decrypt"
        /\ elgamalResult.x = elgamalKeyPair.privateKey.x)
       => elgamalResult.value = elgamalResult.message
C11_Witness ==
    /\ elgamalResult.op = "decrypt"
    /\ elgamalResult.x = elgamalKeyPair.privateKey.x
    /\ elgamalResult.message = 0
    /\ elgamalResult.value = 0
    /\ \E i \in 1..Len(plaintexts) : plaintexts[i] = MAX_VOTES

\* C12: the sum of two ciphertexts, and the aggregate of a non-empty list of
\* ciphertexts, under one key, decrypts to the sum of their plaintexts when that
\* sum is at most MAX_VOTES (a list of one decrypts to its own plaintext), and the
\* aggregate of the empty list fails.
C12_Homomorphism ==
    /\ (elgamalResult.op = "add" /\ elgamalResult.message <= MAX_VOTES)
       => elgamalResult.value = elgamalResult.message
    /\ elgamalResult.op = "aggregate" =>
          /\ elgamalResult.ct = AggregateFailed <=> elgamalResult.n = 0
          /\ (elgamalResult.n >= 1 /\ elgamalResult.message <= MAX_VOTES)
             => elgamalResult.value = elgamalResult.message
          /\ elgamalResult.n = 1 => elgamalResult.value = plaintexts[1]
C12_Witness ==
    /\ elgamalResult.op = "aggregate"
    /\ elgamalResult.n = 3
    /\ elgamalResult.message = MAX_VOTES
    /\ elgamalResult.value = MAX_VOTES
    /\ plaintexts[3] > 0

\* the plaintext of a ciphertext under a private key: the discrete logarithm of
\* c2 - x*c1
PlaintextUnder(kp, ct) ==
    PointSubtract(FromHex(ct.c2), PointMultiply(FromHex(ct.c1), kp.privateKey.x))
\* the aggregate of the stored ballots' ciphertexts at a position
AggregateAt(pos) ==
    aggregate([i \in 1..Len(votes) |-> getEncryptedVoteAt(votes[i], pos)])
\* C13: decrypt, under the right key or a wrong one, returns the plaintext of the
\* ciphertext under that key when it lies in [0, MAX_VOTES] and fails otherwise
\* (it never returns another value, 0 included); tallyResults with the creation
\* password fails, reporting no totals, when the aggregate of a position is out of
\* range, and otherwise reports the plaintexts of the aggregates.
C13_DecryptHardError ==
    LET positions == 1..Len(CandidateIds)
        stored == {getEncryptedVoteAt(votes[i], pos) :
                      i \in 1..Len(votes), pos \in positions}
        aggregates == IF Len(votes) = 0 THEN {}
                      ELSE {AggregateAt(pos) : pos \in positions}
    IN  /\ \A kp \in {keyPair, fromPassword("wrong-pw")} :
            \A ct \in stored \cup aggregates :
                decrypt(kp, ct) =
                    IF PlaintextUnder(kp, ct) \in 0..MAX_VOTES
                    THEN PlaintextUnder(kp, ct) ELSE DecryptionFailed
        /\ (/\ result.op = "tallyResults"
            /\ result.password = TrusteePassword
            /\ status = "ended"
            /\ Len(votes) > 0)
           => IF \A pos \in positions :
                    PlaintextUnder(keyPair, AggregateAt(pos)) \in 0..MAX_VOTES
              THEN /\ result.out = "ok"
                   /\ \A pos \in positions :
                         result.totals[CandidateIds[pos]]
                            = PlaintextUnder(keyPair, AggregateAt(pos))
              ELSE /\ result.out = "Decryption failed"
                   /\ result.totals = NoTotals
C13_Witness ==
    /\ result.op = "tallyResults"
    /\ result.out = "Decryption failed"
    /\ Len(votes) = 3
    /\ \A i \in 1..Len(votes) : votes[i].ghost.h = keyPair.publicKey.h

VoterCalled(op) == voterResult'.op = op /\ tokenClock' = tokenClock

\* C15: verifyToken(candidate) returns true iff a token has been issued, the hash
\* of the candidate is the stored hash and the token is not marked used (false
\* when none was issued), whatever the time; isTokenExpired returns true iff no
\* token exists or the time is past expiresAt.
C15_VerifyToken ==
    [][/\ VoterCalled("verifyToken") =>
            /\ voterResult'.out =
                  IF tokenField = <<>> THEN FALSE
                  ELSE /\ Sha256Hex(voterResult'.arg) = tokenField[1].hash
                       /\ ~tokenField[1].used
            /\ \A now \in 0..MaxHours :
                  verifyToken(tokenField, voterResult'.arg, now) = voterResult'.out
       /\ VoterCalled("isTokenExpired") =>
            voterResult'.out =
                IF tokenField = <<>> THEN TRUE
                ELSE tokenClock > tokenField[1].expiresAt]_voterVars
C15_Witness ==
    /\ voterResult.op = "verifyToken"
    /\ voterResult.out = TRUE
    /\ isTokenExpired(tokenField, tokenClock)

\* C16: a token that was current when markTokenUsed was called never verifies
\* again; generateToken stores a token that is not marked used and is, of all the
\* strings tried, the only one that verifies; a string that verifies is the
\* newest token.
C16_OneTimeToken ==
    [][/\ (VoterCalled("verifyToken") /\ voterResult'.arg \in markedTokens)
          => voterResult'.out = FALSE
       /\ (VoterCalled("verifyToken") /\ voterResult'.out = TRUE)
          => (tokenField # <<>> /\ voterResult'.arg = tokenField[1].token)
       /\ VoterCalled("generateToken") =>
            /\ tokenField' = <<[token     |-> voterResult'.str[1],
                                hash      |-> Sha256Hex(voterResult'.str[1]),
                                expiresAt |-> tokenField'[1].expiresAt,
                                used      |-> FALSE]>>
            /\ \A token \in issuedTokens' \cup OtherStrings :
                  verifyToken(tokenField', token, tokenClock')
                     <=> token = voterResult'.str[1]]_voterVars
C16_Witness ==
    /\ voterResult.op = "verifyToken"
    /\ voterResult.arg \in markedTokens
    /\ voterResult.out = FALSE
    /\ tokenField # <<>>
    /\ tokenField[1].token # voterResult.arg
    /\ tokenField[1].used = FALSE

\* C17: parseToken of a token issued to a voter returns the voter's id, and
\* parseToken of a string with fewer than two ':'-separated segments returns null.
C17_ParseRoundTrip ==
    voterResult.op = "parseToken" =>
        /\ voterResult.arg \in issuedTokens => voterResult.str = <<voterObject.id>>
        /\ Len(Split(voterResult.arg, ":")) < 2 => voterResult.str = Null

\* C18: a tree built from a CSV skips the first line of the trimmed content iff it
\* contains 'email' in any case, takes the first comma field of every other line
\* trimmed and lower-cased, keeps the fields that are non-empty and hold an '@',
\* and throws 'No valid emails found in CSV' when none is kept; otherwise its size
\* is the number of distinct kept emails and its leaves are their hashes in the
\* order of their first occurrence.
C18_RosterBuild ==
    treeResult.op = "new VoterMerkleTree" =>
        LET lines    == Split(Trim(treeResult.arg), "\n")
            skipped  == IF Includes(ToLowerCase(lines[1]), "email") THEN 1 ELSE 0
            field(i) == ToLowerCase(Trim(Split(lines[i], ",")[1]))
            accepted == {i \in (skipped + 1)..Len(lines) :
                            field(i) # "" /\ Includes(field(i), "@")}
            emails   == {field(i) : i \in accepted}
            first(e) == CHOOSE i \in accepted :
                            /\ field(i) = e
                            /\ \A j \in accepted : field(j) = e => i <= j
            data     == voterTree.voterData
        IN  /\ treeResult.out = IF emails = {} THEN "No valid emails found in CSV"
                                ELSE "ok"
            /\ treeResult.out = "ok" =>
                  /\ size(voterTree) = Cardinality(emails)
                  /\ Len(data) = Cardinality(emails)
                  /\ {data[k].email : k \in 1..Len(data)} = emails
                  /\ \A k, l \in 1..Len(data) :
                        k < l => first(data[k].email) < first(data[l].email)
                  /\ \A k \in 1..Len(data) :
                        /\ voterTree.tree.elements[k] = Sha256Hex(data[k].email)
                        /\ data[k].index = k - 1
                        /\ voterTree.voterMap[data[k].email] = k - 1
C18_Witness ==
    /\ treeResult.op = "new VoterMerkleTree"
    /\ treeResult.arg = "b@x\n\n,Bob\nc@x,Cy\nB@X \nnobody"
    /\ treeResult.out = "ok"
    /\ Len(voterTree.voterData) = 2

\* C19: in every state the depth of the tree is the least d with 2^d >= max(1, n),
\* n being its size.
C19_DepthOfSize ==
    LET n == IF size(voterTree) < 1 THEN 1 ELSE size(voterTree)
        d == depth(voterTree)
    IN  /\ 2 ^ d >= n
        /\ d > 0 => 2 ^ (d - 1) < n

\* C20: in every state and for every email, the email is eligible iff generateProof
\* returns a proof for it, and that proof has the root of the tree, the hash of
\* the normalised email as its leaf, and a path as long as the tree is deep; for
\* an email that is not eligible it returns null.
C20_EligibleIffProvable ==
    /\ \A email \in TreeEmails \cup {"b@x", "A@X", "nobody@x"} :
          LET proof == treeGenerateProof(voterTree, email)
          IN  /\ isEligible(voterTree, email) <=> proof # Null
              /\ proof # Null =>
                    /\ proof[1].root = getRoot(voterTree)
                    /\ proof[1].leaf = Sha256Hex(ToLowerCase(Trim(email)))
                    /\ Len(proof[1].pathElements) = depth(voterTree)
                    /\ Len(proof[1].pathIndices) = depth(voterTree)
    /\ treeResult.op = "generateProof" =>
          treeResult.flag = isEligible(voterTree, treeResult.arg)
    /\ treeResult.op = "isEligible" =>
          treeResult.flag = (treeGenerateProof(voterTree, treeResult.arg) # Null)
C20_Witness ==
    /\ treeResult.op = "generateProof"
    /\ treeResult.arg = " B@x"
    /\ treeResult.flag
    /\ Len(treeResult.proof[1].pathElements) = 2
    /\ size(voterTree) < Len(voterTree.voterData)

\* C21: a step of addVoter or addVoters never adds an email a second time: every
\* email that holds more than one entry of the voter data after the step held as
\* many before it.
C21_AddRejectsDuplicates ==
    [][LET entries(this, email) ==
               Cardinality({k \in 1..Len(this.voterData) :
                               this.voterData[k].email = email})
       IN  treeResult'.op \in {"addVoter", "addVoters"} =>
              \A k \in 1..Len(voterTree'.voterData) :
                 LET email == voterTree'.voterData[k].email
                 IN  entries(voterTree', email) > 1 =>
                        entries(voterTree', email) = entries(voterTree, email)
      ]_treeVars

\* C22: a step of updateVoter(oldEmail, newEmail) throws 'not found' and leaves
\* the tree as it was when oldEmail is not eligible; when oldEmail is eligible and
\* newEmail normalises to another email, afterwards newEmail is eligible, oldEmail
\* is not, the new email has the index the old one had, and the size is the same.
C22_UpdateReplacesLeaf ==
    [][\A oldEmail, newEmail \in TreeEmails :
          LET outcome       == updateVoter(voterTree, oldEmail, newEmail)
              normalizedOld == ToLowerCase(Trim(oldEmail))
              normalizedNew == ToLowerCase(Trim(newEmail))
          IN  ( /\ treeResult'.op = "updateVoter"
                /\ treeResult'.arg = oldEmail
                /\ treeResult'.out = outcome.out
                /\ voterTree' = outcome.this ) =>
                 /\ ~isEligible(voterTree, oldEmail) =>
                       /\ treeResult'.out =
                             "Voter " \o oldEmail \o " not found in tree"
                       /\ voterTree' = voterTree
                 /\ (isEligible(voterTree, oldEmail) /\ normalizedNew # normalizedOld) =>
                       /\ treeResult'.out = "ok"
                       /\ isEligible(voterTree', newEmail)
                       /\ ~isEligible(voterTree', oldEmail)
                       /\ voterTree'.voterMap[normalizedNew] =
                             voterTree.voterMap[normalizedOld]
                       /\ size(voterTree') = size(voterTree)
      ]_treeVars

\* C23: for every tree that build, add and update lead to, the tree imported from
\* its export has the same root, size and depth, and gives the same isEligible
\* answer for every email.
C23_ExportImportRoundTrip ==
    LET imported == treeImport(treeExport(voterTree))
        same(t)  == /\ getRoot(t) = getRoot(voterTree)
                    /\ size(t) = size(voterTree)
                    /\ depth(t) = depth(voterTree)
                    /\ \A email \in TreeEmails \cup {"b@x", "A@X", "nobody@x"} :
                          isEligible(t, email) = isEligible(voterTree, email)
    IN  /\ same(imported)
        /\ treeResult.op = "import" => same(treeResult.tree)
C23_Witness ==
    /\ treeResult.op = "import"
    /\ size(voterTree) = 2
    /\ Len(voterTree.voterData) = 3
    /\ Len(treeResult.tree.voterData) = 2
    /\ depth(treeResult.tree) = 2

\* C24: the commitment of a voter is that of every voter made from the same email
\* and election id, and of no voter made from another email or election id.
C24_IdentityPerPair ==
    \A email \in VoterEmails, electionId \in VoterElectionIds :
       LET other == Voter(email, electionId)
           same  == other.email = voterObject.email /\ other.id = voterObject.id
       IN  /\ same => other.commitment = voterObject.commitment
           /\ ~same => /\ other.identity # voterObject.identity
                       /\ other.commitment # voterObject.commitment

\* C25: two ballots cast by the same voter in the same election carry the same
\* nullifier, whatever the selected candidates and the encryption randomness;
\* ballots of different voters of one election, and of one voter in different
\* elections, carry different nullifiers.
C25_NullifierPerVoterAndElection ==
    (lastCast # NoCast /\ earlierCast # NoCast) =>
        LET sameVoter    == lastCast.email = earlierCast.email
            sameElection == lastCast.electionId = earlierCast.electionId
        IN  /\ lastCast.vote.nullifier = lastCast.vote.proof.nullifier
            /\ (sameVoter /\ sameElection) =>
                  lastCast.vote.nullifier = earlierCast.vote.nullifier
            /\ (sameElection /\ ~sameVoter) =>
                  lastCast.vote.nullifier # earlierCast.vote.nullifier
            /\ (sameVoter /\ ~sameElection) =>
                  lastCast.vote.nullifier # earlierCast.vote.nullifier
C25_Witness ==
    /\ lastCast.email = "a@x" /\ earlierCast.email = "a@x"
    /\ lastCast.electionId = ElectionId /\ earlierCast.electionId = ElectionId
    /\ lastCast.selected = "alice" /\ earlierCast.selected = "bob"
    /\ lastCast.vote.voteVector.encryptedVotes[1].c1
          # earlierCast.vote.voteVector.encryptedVotes[1].c1
    /\ lastCast.vote.nullifier = earlierCast.vote.nullifier

\* C26 as stated: every ballot that cast returns has one ciphertext per entry of
\* the candidate order, exactly one of which decrypts to 1, the others to 0.
C26_AsStated ==
    lastCast # NoCast =>
        LET encryptedVotes == lastCast.vote.voteVector.encryptedVotes
        IN  /\ Len(encryptedVotes) = Len(lastCast.vote.voteVector.candidateOrder)
            /\ Cardinality({k \in 1..Len(encryptedVotes) : decrypt(keyPair, encryptedVotes[k]) = 1}) = 1
            /\ \A k \in 1..Len(encryptedVotes) : decrypt(keyPair, encryptedVotes[k]) \in {0, 1}
\* C26: every ballot that cast returns has one ciphertext per entry of the
\* candidate order, and the ciphertext of a position decrypts to 1 when the
\* position holds the selected candidate and to 0 when it does not: exactly one
\* position decrypts to 1 when the selected candidate stands once in the
\* candidate order, none when it does not stand in it.
C26_OneHot ==
    lastCast # NoCast =>
        LET encryptedVotes == lastCast.vote.voteVector.encryptedVotes
            order == lastCast.vote.voteVector.candidateOrder
            ones  == {k \in 1..Len(encryptedVotes) : decrypt(keyPair, encryptedVotes[k]) = 1}
            hits  == {k \in 1..Len(order) : order[k] = lastCast.selected}
        IN  /\ Len(encryptedVotes) = Len(order)
            /\ \A k \in 1..Len(encryptedVotes) :
                  decrypt(keyPair, encryptedVotes[k]) = IF k \in hits THEN 1 ELSE 0
            /\ Cardinality(hits) = 1 => Cardinality(ones) = 1 /\ ones = hits
            /\ hits = {} => ones = {}
C26_Witness ==
    /\ lastCast.selected = "bob"
    /\ earlierCast.selected = "nobody"
    /\ decrypt(keyPair, lastCast.vote.voteVector.encryptedVotes[2]) = 1
    /\ decrypt(keyPair, lastCast.vote.voteVector.encryptedVotes[1]) = 0

\* C27: the hash of a vote vector is the message of the proof and the
\* voteVectorHash of the receipt, and two ballots with the same candidate order
\* have the same hash iff they have the same ciphertext sequence.
C27_HashBindsCiphertexts ==
    (lastCast # NoCast /\ earlierCast # NoCast) =>
        /\ lastCast.vote.message = hashVoteVector(lastCast.vote.voteVector)
        /\ lastCast.vote.receipt.voteVectorHash = lastCast.vote.message
        /\ lastCast.vote.voteVector.candidateOrder
              = earlierCast.vote.voteVector.candidateOrder =>
                 (lastCast.vote.message = earlierCast.vote.message
                    <=> lastCast.vote.voteVector.encryptedVotes
                          = earlierCast.vote.voteVector.encryptedVotes)

\* C28: every submitVote call completes with success or with one of its error
\* messages (or is suspended at its await); none rejects its promise.
C28_SubmitNeverThrows ==
    result.op \in {"submitVote", "submitVote resumed"} =>
        result.out \in {"await", "success", "Election is not active",
                        "Voter has already voted", "Invalid vote proof",
                        "Invalid candidate order in vote vector"}

\* C29: in every state getStats returns the number of stored voters as
\* totalVoters, the number of used nullifiers, which is the number of accepted
\* ballots, as totalVotes, and 100 * totalVotes / totalVoters as turnout, 0 when
\* there are no voters.
C29_Stats ==
    LET stats == getStats
    IN  /\ stats.totalVoters = Cardinality(DOMAIN voters)
        /\ stats.totalVotes = Cardinality(usedNullifiers)
        /\ stats.totalVotes = Len(votes)
        /\ stats.turnout.num * (IF stats.totalVoters = 0 THEN 1 ELSE stats.totalVoters)
              = (IF stats.totalVoters = 0 THEN 0 ELSE 100 * stats.totalVotes)
                   * stats.turnout.den
        /\ result.op = "getStats" => result.stats = stats

\* C30: Election.import(state, password) fails when the public key derived from
\* the password differs from the public key of the state, and the election it
\* returns has the key pair of that public key.
C30_ImportChecksPassword ==
    result.op = "import" =>
        LET derived == "{\"h\":"
                          \o JsonString(HexText(fromPassword(result.password).publicKey.h))
                          \o "}"
        IN  /\ derived # result.state.publicKey => result.out # "ok"
            /\ result.out = "ok" =>
                  "{\"h\":" \o JsonString(HexText(result.election.keyPair.publicKey.h))
                     \o "}" = result.state.publicKey

C32_GroupMatchesRoster ==
    /\ Len(group) = Cardinality(DOMAIN voters)
    /\ Range(group) = {voters[id].commitment : id \in DOMAIN voters}
    /\ \A i, j \in 1..Len(group) : group[i] = group[j] => i = j

C34_RejectionChangesNothing ==
    [][(/\ result'.op \in {"submitVote", "submitVote resumed"}
        /\ result'.out \notin {"success", "await"})
          => /\ votes' = votes
             /\ usedNullifiers' = usedNullifiers
             /\ status' = status]_vars
\* a ballot of a voter has just been rejected for its proof, and the same
\* voter's well-formed ballot passes every check of submitVote
C34_Witness ==
    /\ result.op = "submitVote resumed"
    /\ result.out = "Invalid vote proof"
    /\ result.nullifier \notin usedNullifiers
    /\ \E vote \in SubmittedBallots :
          /\ vote.nullifier = result.nullifier
          /\ submitVoteCheck(status, usedNullifiers, vote) = "await"
          /\ submitVoteResume(vote) = "success"

\* C35: the tally does not depend on the order in which the accepted ballots
\* were appended: tallyResults gives the same outcome and the same total for
\* every candidate on every reordering of the ballot list.
C35_TallyIgnoresOrder ==
    \A p \in Permutations(1..Len(votes)) :
        tallyResults("ended", [i \in 1..Len(votes) |-> votes[p[i]]], TrusteePassword)
            = tallyResults("ended", votes, TrusteePassword)
C35_Witness ==
    /\ status = "ended"
    /\ result.op = "tallyResults"
    /\ result.out = "ok"
    /\ Len(votes) = 3
    /\ votes[1].ghost.selected # votes[3].ghost.selected
    /\ result.totals = tallyResults("ended", Reversed(votes), TrusteePassword).totals

\* C36: after any addVoters and uploadVoters calls, isVoterEligible(email) is
\* true exactly when a voter with the normalised email is stored and that
\* voter's commitment is a member of the group.
C36_EligibleIffEnrolled ==
    \A email \in EnrolQueries :
        isVoterEligible(email) <=>
            \E id \in DOMAIN voters :
                /\ voters[id].email = Trim(ToLowerCase(email))
                /\ voters[id].commitment \in Range(group)

\* C37: after the construction and any addVoter, addVoters and updateVoter
\* calls, whether they return or throw, the voter records, the email-to-index
\* map and the leaves of the tree describe one roster: they have the same
\* length, record i has index i and is what the map gives for its email, leaf i
\* is the SHA-256 of the email of record i, and no two records have the same
\* email.
C37_OneRoster ==
    LET data   == voterTree.voterData
        map    == voterTree.voterMap
        leaves == voterTree.tree.elements
    IN  /\ Len(data) = Cardinality(DOMAIN map)
        /\ Len(data) = Len(leaves)
        /\ \A i \in 1..Len(data) :
              /\ data[i].index = i - 1
              /\ data[i].email \in DOMAIN map
              /\ map[data[i].email] = i - 1
              /\ i <= Len(leaves) => leaves[i] = hashEmail(data[i].email)
        /\ \A i, j \in 1..Len(data) : data[i].email = data[j].email => i = j

\* C38: an addVoters call that throws because an email of the batch is already
\* in the tree leaves the tree as it was: the root, the size, the depth, the
\* voter records and the isEligible answers are those from before the call.
C38_FailedBatchIsAtomic ==
    [][(treeResult'.op = "addVoters" /\ treeResult'.out # "ok") =>
          /\ getRoot(voterTree') = getRoot(voterTree)
          /\ size(voterTree') = size(voterTree)
          /\ depth(voterTree') = depth(voterTree)
          /\ voterTree'.voterData = voterTree.voterData
          /\ \A email \in TreeEmails :
                isEligible(voterTree', email) = isEligible(voterTree, email)]_treeVars

\* C39: after tree2 = import(export(tree1)), an addVoter, addVoters or
\* updateVoter call on tree2 leaves the size, the root and the isEligible
\* answers of tree1 as they were, and a call on tree1 leaves those of tree2.
C39_ImportedTreeIsIndependent ==
    [][\A which \in {"tree1", "tree2"} :
          (shareResult'.which = which /\ shareResult'.op # "import") =>
              LET fields == IF which = "tree1" THEN tree2 ELSE tree1
                  other  == ObjectOf(fields)
              IN  /\ size(other') = size(other)
                  /\ getRoot(other') = getRoot(other)
                  /\ \A email \in ShareEmails \cup {"a@x"} :
                        isEligible(other', email) = isEligible(other, email)]_shareVars

====
